---- MODULE Spec2Model ----
(***************************************************************************)
(* Model of scripts/motion_pipeline.py: the MotionPipeline ingestion loop  *)
(* (run), the per-frame region loop (process_frame), the cooldown tracker, *)
(* the escalation policy, the classifier and verifier gateways and the     *)
(* detection store.                                                        *)
(*                                                                         *)
(* Time is the value of time.time() in whole seconds.  Confidences and the *)
(* escalation threshold are hundredths (0.6 is 60).  Image crops are their *)
(* (height, width) in pixels.  Strings are TLA+ strings; Python None and   *)
(* SQL NULL are the value NULL.                                            *)
(***************************************************************************)
EXTENDS Integers, Sequences, FiniteSets, TLC

\* ------------------------------------------------------------------ bounds
MaxTime == 3        \* the clock stops advancing here
MaxFrames == 2      \* frames read successfully in one run
MaxRegions == 2     \* candidate regions of one frame
MaxRecords == 2     \* regions admitted in one run
MaxRows == 3        \* rows two instances insert into one store

NULL == "NULL"

Max(a, b) == IF a > b THEN a ELSE b

\* ------------------------------------------------------- program constants
CLASSES_10 ==
  {"person", "car", "truck", "bus", "motorcycle",
   "bicycle", "dog", "cat", "bird", "unknown"}

YOLO_TO_10_CLASSES_raw(yolo_label) == yolo_label

\* YOLO_TO_10_CLASSES.get(yolo_label, "unknown")
YOLO_TO_10_CLASSES(yolo_label) ==
  IF yolo_label \in {"person", "car", "truck", "bus", "motorcycle",
                     "bicycle", "dog", "cat", "bird"}
  THEN yolo_label ELSE "unknown"

DEFAULT_MAX_PX == 500     \* _crop_to_b64(crop_img, max_px=500)
BACKOFF == 2              \* time.sleep(2)
REQUESTS_AVAILABLE == TRUE

\* ------------------------------------------------------------------ inputs
\* Configurations (argparse.Namespace) the runs start from: one with the
\* verifier key set, the classifier loaded and events on, and its
\* variations in one option each.
BaseArgs ==
  [camera_id |-> "cam01", cooldown |-> 2, llm_threshold |-> 60,
   night_mode |-> FALSE, api_key |-> "sk", model_loaded |-> TRUE,
   max_crop |-> 500, output_events |-> TRUE, process_every |-> 1,
   stats_interval |-> 3]

Configs ==
  {BaseArgs,
   [BaseArgs EXCEPT !.night_mode = TRUE],
   [BaseArgs EXCEPT !.api_key = ""],
   [BaseArgs EXCEPT !.model_loaded = FALSE],
   [BaseArgs EXCEPT !.max_crop = 4000],
   [BaseArgs EXCEPT !.output_events = FALSE],
   [BaseArgs EXCEPT !.process_every = 2],
   [BaseArgs EXCEPT !.cooldown = 1]}

\* Candidate regions extract_moving_objects can yield: the padded box
\* <<x1, y1, x2, y2>> in the working frame and the contour area.  An
\* ordinary one, and a thin one (the 5x5 opening leaves no component narrower
\* than 5 pixels).
Regions ==
  {[bbox |-> <<10, 20, 210, 320>>, area |-> 30000],
   [bbox |-> <<100, 0, 105, 3000>>, area |-> 11996]}

\* obj["crop"] = small[y1:y2, x1:x2], as <<height, width>>.
CropOf(bbox) == <<bbox[4] - bbox[2], bbox[3] - bbox[1]>>

Crops == {CropOf(r.bbox) : r \in Regions}

\* What self.model(crop) does: raises, returns no box, or returns a first
\* box with a class name and a confidence.
ModelOutputs ==
  {[kind |-> "raise", name |-> "", conf |-> 0],
   [kind |-> "nobox", name |-> "", conf |-> 0]}
  \cup [kind : {"box"}, name : {"person", "car"}, conf : {60}]

\* What requests.post(...) and the reading of its body do: raise (network
\* error, timeout, HTTP error status from raise_for_status, a body that is
\* not the expected JSON), or yield the content text head [| tail].
HttpFailures == {"network_error", "timeout", "http_status", "bad_body"}
HttpTexts ==
  {[head |-> " Person ", sep |-> FALSE, tail |-> ""],
   [head |-> "alien", sep |-> TRUE, tail |-> " x "]}
HttpOutcomes ==
  [kind : {"raise"}, why : HttpFailures, text : {[head |-> "", sep |-> FALSE, tail |-> ""]}]
  \cup [kind : {"ok"}, why : {""}, text : HttpTexts]

\* str.strip() and str.lower() on the texts above.
Strip(s) ==
  CASE s = " Person " -> "Person"
    [] s = " x " -> "x"
    [] OTHER -> s
Lower(s) ==
  CASE s = "Person" -> "person"
    [] s = " Person " -> " person "
    [] OTHER -> s

\* ------------------------------------------------------ pure functions
\* The crop normalisation written out in save_detection, classify and
\* _crop_to_b64: scale = max_px / max(h, w); cv2.resize(img, (int(w*scale),
\* int(h*scale))).  cv2.resize raises cv2.error when a target side is 0.
\* Result: [raised, crop].
Normalize(crop, max_px) ==
  LET h == crop[1]
      w == crop[2]
      m == Max(h, w)
  IN  IF m > max_px
      THEN LET nh == (h * max_px) \div m
               nw == (w * max_px) \div m
           IN  IF nh = 0 \/ nw = 0
               THEN [raised |-> TRUE, crop |-> crop]
               ELSE [raised |-> FALSE, crop |-> <<nh, nw>>]
      ELSE [raised |-> FALSE, crop |-> crop]

classify_no_model_check(model_loaded, crop_img, max_px, out) ==
  LET n == Normalize(crop_img, max_px)
  IN  IF n.raised
      THEN [raised |-> TRUE, label |-> NULL, conf |-> 0, crop |-> crop_img]
      ELSE IF out.kind = "box"
           THEN [raised |-> FALSE, label |-> out.name,
                 conf |-> out.conf, crop |-> n.crop]
           ELSE [raised |-> FALSE, label |-> "unknown", conf |-> 0,
                 crop |-> n.crop]

\* LocalClassifier.classify(crop_img, max_px); `out` is what the model call
\* does.  Result: [raised, label, conf, crop].
classify(model_loaded, crop_img, max_px, out) ==
  IF ~model_loaded
  THEN [raised |-> FALSE, label |-> "unknown", conf |-> 0, crop |-> crop_img]
  ELSE LET n == Normalize(crop_img, max_px)
       IN  IF n.raised
           THEN [raised |-> TRUE, label |-> NULL, conf |-> 0, crop |-> crop_img]
           ELSE IF out.kind = "box"
                THEN [raised |-> FALSE, label |-> YOLO_TO_10_CLASSES(out.name),
                      conf |-> out.conf, crop |-> n.crop]
                ELSE [raised |-> FALSE, label |-> "unknown", conf |-> 0,
                      crop |-> n.crop]

should_send_to_llm_le(label, confidence, threshold, night_mode, night_person_always) ==
  IF confidence <= threshold
  THEN TRUE
  ELSE IF label = "person" /\ night_mode /\ night_person_always
       THEN TRUE
       ELSE FALSE

\* should_send_to_llm(label, confidence, threshold, night_mode,
\* night_person_always)
should_send_to_llm(label, confidence, threshold, night_mode, night_person_always) ==
  IF confidence < threshold
  THEN TRUE
  ELSE IF label = "person" /\ night_mode /\ night_person_always
       THEN TRUE
       ELSE FALSE

verify_unknown_on_error(api_key, crop_img, local_label, http) ==
  IF api_key = "" \/ ~REQUESTS_AVAILABLE
  THEN [raised |-> FALSE, posted |-> FALSE,
        llm_label |-> local_label, description |-> ""]
  ELSE IF Normalize(crop_img, DEFAULT_MAX_PX).raised
  THEN [raised |-> TRUE, posted |-> FALSE,
        llm_label |-> NULL, description |-> NULL]
  ELSE [raised |-> FALSE, posted |-> TRUE,
        llm_label |-> "unknown", description |-> ""]

\* LlmVerifier.verify(crop_img, local_label, camera_id); `http` is what the
\* POST does.  Result: [raised, posted, llm_label, description]: raised when
\* _crop_to_b64 raises (it runs before the try), posted when the request
\* was sent.
verify(api_key, crop_img, local_label, http) ==
  IF api_key = "" \/ ~REQUESTS_AVAILABLE
  THEN [raised |-> FALSE, posted |-> FALSE,
        llm_label |-> local_label, description |-> ""]
  ELSE IF Normalize(crop_img, DEFAULT_MAX_PX).raised
  THEN [raised |-> TRUE, posted |-> FALSE,
        llm_label |-> NULL, description |-> NULL]
  ELSE IF http.kind = "raise"
  THEN [raised |-> FALSE, posted |-> TRUE,
        llm_label |-> local_label, description |-> ""]
  ELSE LET parts0 == http.text.head
           llm_label == Lower(Strip(parts0))
           description == IF http.text.sep THEN Strip(http.text.tail) ELSE ""
       IN  [raised |-> FALSE, posted |-> TRUE,
            llm_label |-> IF llm_label \in CLASSES_10 THEN llm_label ELSE "unknown",
            description |-> description]

IsInCooldown_swapped(seen, label, now, cooldown) ==
  IF label \in DOMAIN seen /\ (seen[label] - now) < cooldown
  THEN TRUE
  ELSE FALSE

IsInCooldown_short(seen, label, now, cooldown) ==
  IF label \in DOMAIN seen /\ (now - seen[label]) < cooldown - 1
  THEN TRUE
  ELSE FALSE

\* MotionPipeline._is_in_cooldown(label) with now = time.time()
\* (last_seen is a dict: a label that is not a key has no last-seen time).
IsInCooldown(seen, label, now, cooldown) ==
  IF label \in DOMAIN seen /\ (now - seen[label]) < cooldown
  THEN TRUE
  ELSE FALSE

UpdateCooldown_replace(seen, label, now) ==
  [l \in {label} |-> now]

\* MotionPipeline._update_cooldown(label) with now = time.time()
UpdateCooldown(seen, label, now) ==
  [l \in DOMAIN seen \cup {label} |-> IF l = label THEN now ELSE seen[l]]

\* ------------------------------------------------------------------- state
VARIABLES
  args,             \* the configuration (self.args)
  pc,               \* where run() is: start, loop, region, gate, save, escalate,
                    \* update, emit, read, backoff, finally, report, stopped,
                    \* crashed, exited
  running,          \* self.running
  cap,              \* run()'s frame source handle: none, open, unopened
                    \* (isOpened() is false), released
  clock,            \* time.time()
  frame_count,      \* run()'s local frame_count
  stats,            \* self.stats
  last_stats_emit,  \* self._last_stats_emit
  last_seen,        \* self.last_seen
  conn,             \* the detections table, in id order
  events,           \* the lines printed on standard output
  pending,          \* regions of the current frame not yet processed
  cur,              \* process_frame's locals for the current region
  exc,              \* the exception that left run(), if one did
  audit,            \* history, per record: admission time, verifier calls,
                    \* HTTP requests sent, updates
  admitted,         \* history: regions that passed the cooldown gate
  gated,            \* history: what the gate did with the region at hand
                    \* (none, suppressed, admitted)
  probe             \* a call of a pure function (its inputs and its result),
                    \* or the connections of two instances to one store

vars ==
  <<args, pc, running, cap, clock, frame_count, stats, last_stats_emit, last_seen,
    conn, events, pending, cur, exc, audit, admitted, gated, probe>>

NoCur ==
  [bbox |-> <<0, 0, 0, 0>>, area |-> 0, crop |-> <<0, 0>>, label |-> NULL, conf |-> 0, det_id |-> 0,
   sent_to_llm |-> FALSE, llm_label |-> NULL, llm_description |-> NULL,
   vfailed |-> FALSE]

NoProbe == [fn |-> "none"]

\* The pipeline as constructed, before run().
Constructed ==
  /\ pc = "start"
  /\ running = FALSE
  /\ cap = "none"
  /\ clock = 0
  /\ frame_count = 0
  /\ stats = [frames |-> 0, processed |-> 0, detections |-> 0, llm_calls |-> 0]
  /\ last_stats_emit = 0
  /\ last_seen = << >>
  /\ conn = << >>
  /\ events = << >>
  /\ pending = 0
  /\ cur = NoCur
  /\ exc = NULL
  /\ audit = << >>
  /\ admitted = 0
  /\ gated = "none"

Init ==
  /\ args \in Configs
  /\ Constructed
  /\ probe = NoProbe

emit_event_always(output_events, out, event) == Append(out, event)

\* MotionPipeline._emit_event(event) under --output-events = output_events.
emit_event(output_events, out, event) ==
  IF output_events THEN Append(out, event) ELSE out

\* self._emit_event(event)
EmitEvent(out, event) == emit_event(args.output_events, out, event)

LifecycleEvent(type) ==
  [type |-> type, id |-> 0, label |-> NULL, sent_to_llm |-> FALSE,
   llm_label |-> NULL, llm_description |-> NULL]

\* An exception leaves the while loop of run(): control goes to the finally
\* block, and the exception goes on out of run() after it.
Raise(what) ==
  /\ pc' = "finally"
  /\ exc' = what
  /\ UNCHANGED <<running, events>>

\* ----------------------------------------------------------------- actions
\* run(), up to the loop: open the source; sys.exit(1) when it is not open;
\* else the 'started' event, running = True, frame_count = 0.
Open ==
  /\ pc = "start"
  /\ \E opened \in BOOLEAN :
       IF opened
       THEN /\ cap' = "open"
            /\ events' = EmitEvent(events, LifecycleEvent("started"))
            /\ running' = TRUE
            /\ frame_count' = 0
            /\ pc' = "loop"
       ELSE /\ cap' = "unopened"
            /\ pc' = "exited"
            /\ UNCHANGED <<events, running, frame_count>>
  /\ UNCHANGED <<probe, args, clock, stats, last_stats_emit, last_seen, conn,
                 pending, cur, exc, audit, admitted, gated>>

\* _handle_signal: pipeline.running = False (SIGTERM or SIGINT, at any
\* point while the process runs).
StopSignal ==
  /\ pc \notin {"stopped", "crashed", "exited"}
  /\ running' = FALSE
  /\ UNCHANGED <<probe, args, cap, pc, clock, frame_count, stats, last_stats_emit,
                 last_seen, conn, events, pending, cur, exc, audit,
                 admitted, gated>>

\* Time passes where the loop waits: for the next frame, for inference on
\* the next region, for the verifier's answer.
Tick ==
  /\ pc \in {"loop", "region", "update"}
  /\ clock < MaxTime
  /\ clock' = clock + 1
  /\ UNCHANGED <<probe, args, cap, pc, running, frame_count, stats, last_stats_emit,
                 last_seen, conn, events, pending, cur, exc, audit,
                 admitted, gated>>

\* `while self.running:` holds and cap.read() is called.  (The bounds leave
\* the read an outcome: a frame, or a failure and its backoff.)
LoopCheck ==
  /\ pc = "loop"
  /\ running
  /\ \/ cap = "open" /\ stats.frames < MaxFrames
     \/ clock + BACKOFF <= MaxTime
  /\ pc' = "read"
  /\ UNCHANGED <<probe, args, cap, running, clock, frame_count, stats,
                 last_stats_emit, last_seen, conn, events, pending, cur, exc,
                 audit, admitted, gated>>

LoopExit_running ==
  /\ pc = "loop"
  /\ running
  /\ pc' = "finally"
  /\ UNCHANGED <<probe, args, cap, running, clock, frame_count, stats,
                 last_stats_emit, last_seen, conn, events, pending, cur, exc,
                 audit, admitted, gated>>

LoopExit_midcycle ==
  /\ pc \in {"loop", "region"}
  /\ ~running
  /\ pc' = "finally"
  /\ UNCHANGED <<probe, args, cap, running, clock, frame_count, stats,
                 last_stats_emit, last_seen, conn, events, pending, cur, exc,
                 audit, admitted, gated>>

\* `while self.running:` fails: control goes to the finally block.
LoopExit ==
  /\ pc = "loop"
  /\ ~running
  /\ pc' = "finally"
  /\ UNCHANGED <<probe, args, cap, running, clock, frame_count, stats,
                 last_stats_emit, last_seen, conn, events, pending, cur, exc,
                 audit, admitted, gated>>

ReadFail_break ==
  /\ pc = "read"
  /\ clock + BACKOFF <= MaxTime
  /\ pc' = "finally"
  /\ UNCHANGED <<probe, args, cap, running, clock, frame_count, stats,
                 last_stats_emit, last_seen, conn, events, pending, cur, exc,
                 audit, admitted, gated>>

\* cap.read() returns ret = False (a handle that is not open always does).
ReadFail ==
  /\ pc = "read"
  /\ clock + BACKOFF <= MaxTime
  /\ pc' = "backoff"
  /\ UNCHANGED <<probe, args, cap, running, clock, frame_count, stats,
                 last_stats_emit, last_seen, conn, events, pending, cur, exc,
                 audit, admitted, gated>>

Reconnect_reset ==
  /\ pc = "backoff"
  /\ clock' = clock + BACKOFF
  /\ cap' \in {"open", "unopened"}
  /\ frame_count' = 0
  /\ pc' = "loop"
  /\ UNCHANGED <<probe, args, running, stats, last_stats_emit,
                 last_seen, conn, events, pending, cur, exc, audit,
                 admitted, gated>>

\* time.sleep(2); cap.release(); cap = cv2.VideoCapture(...); continue.
Reconnect ==
  /\ pc = "backoff"
  /\ clock' = clock + BACKOFF
  /\ cap' \in {"open", "unopened"}
  /\ pc' = "loop"
  /\ UNCHANGED <<probe, args, running, frame_count, stats, last_stats_emit,
                 last_seen, conn, events, pending, cur, exc, audit,
                 admitted, gated>>

\* cap.read() succeeds: count the frame; every process_every-th frame goes
\* to process_frame, whose extract_moving_objects yields n regions.
ReadFrame ==
  /\ pc = "read"
  /\ cap = "open"
  /\ stats.frames < MaxFrames
  /\ frame_count' = frame_count + 1
  /\ IF (frame_count + 1) % args.process_every # 0
     THEN /\ stats' = [stats EXCEPT !.frames = @ + 1]
          /\ pc' = "loop"
          /\ UNCHANGED pending
     ELSE /\ stats' = [stats EXCEPT !.frames = @ + 1, !.processed = @ + 1]
          /\ \E n \in 0..MaxRegions :
               /\ admitted + n <= MaxRecords
               /\ pending' = n
          /\ pc' = "region"
  /\ UNCHANGED <<probe, args, cap, running, clock, last_stats_emit, last_seen, conn,
                 events, cur, exc, audit, admitted, gated>>

\* The finally block of run(), first part: cap.release(); self.running =
\* False.
Release ==
  /\ pc = "finally"
  /\ cap' = "released"
  /\ running' = FALSE
  /\ pc' = "report"
  /\ UNCHANGED <<probe, args, clock, frame_count, stats, last_stats_emit,
                 last_seen, conn, events, pending, cur, exc, audit,
                 admitted, gated>>

\* The finally block, second part: get_statistics(...), the 'stopped'
\* event; run() returns, or the exception that ended the loop goes on.
Report ==
  /\ pc = "report"
  /\ events' = EmitEvent(events, LifecycleEvent("stopped"))
  /\ pc' = IF exc = NULL THEN "stopped" ELSE "crashed"
  /\ UNCHANGED <<probe, args, cap, running, clock, frame_count, stats, last_stats_emit,
                 last_seen, conn, pending, cur, exc, audit, admitted, gated>>

FrameDone_reset ==
  /\ pc = "region"
  /\ pending = 0
  /\ pc' = "loop"
  /\ stats' = [frames |-> 0, processed |-> 0, detections |-> 0, llm_calls |-> 0]
  /\ IF clock - last_stats_emit >= args.stats_interval
     THEN /\ events' = EmitEvent(events, LifecycleEvent("stats"))
          /\ last_stats_emit' = clock
     ELSE UNCHANGED <<events, last_stats_emit>>
  /\ UNCHANGED <<probe, args, cap, running, clock, frame_count, last_seen, conn,
                 pending, cur, exc, audit, admitted>>
  /\ gated' = "none"

\* process_frame has no region left: back in run(), _maybe_emit_stats().
FrameDone ==
  /\ pc = "region"
  /\ pending = 0
  /\ pc' = "loop"
  /\ IF clock - last_stats_emit >= args.stats_interval
     THEN /\ events' = EmitEvent(events, LifecycleEvent("stats"))
          /\ last_stats_emit' = clock
     ELSE UNCHANGED <<events, last_stats_emit>>
  /\ UNCHANGED <<probe, args, cap, running, clock, frame_count, stats, last_seen, conn,
                 pending, cur, exc, audit, admitted>>
  /\ gated' = "none"

\* The head of the region loop: self.classifier.classify(obj["crop"], ...).
Classify ==
  /\ pc = "region"
  /\ pending > 0
  /\ \E obj \in Regions, out \in ModelOutputs :
       LET c == classify(args.model_loaded, CropOf(obj.bbox), args.max_crop, out)
       IN  IF c.raised
           THEN /\ Raise("cv2.error in classify")
                /\ UNCHANGED cur
           ELSE /\ cur' = [NoCur EXCEPT !.bbox = obj.bbox, !.area = obj.area,
                                        !.crop = c.crop, !.label = c.label,
                                        !.conf = c.conf]
                /\ pc' = "gate"
                /\ UNCHANGED <<exc, running, events>>
  /\ gated' = "none"
  /\ UNCHANGED <<probe, args, cap, clock, frame_count, stats, last_stats_emit, last_seen,
                 conn, pending, audit, admitted>>

Gate_no_continue ==
  /\ pc = "gate"
  /\ IF IsInCooldown(last_seen, cur.label, clock, args.cooldown)
     THEN /\ gated' = "suppressed"
          /\ pc' = "save"
          /\ UNCHANGED <<clock, last_seen, admitted, pending, cur>>
     ELSE /\ last_seen' = UpdateCooldown(last_seen, cur.label, clock)
          /\ admitted' = admitted + 1
          /\ pc' = "save"
          /\ gated' = "admitted"
          /\ UNCHANGED <<clock, pending, cur>>
  /\ UNCHANGED <<probe, args, cap, running, frame_count, stats, last_stats_emit, conn,
                 events, exc, audit>>

\* The cooldown gate: if self._is_in_cooldown(label): continue;
\* self._update_cooldown(label).  The two calls read time.time() one after
\* the other.
Gate ==
  /\ pc = "gate"
  /\ IF IsInCooldown(last_seen, cur.label, clock, args.cooldown)
     THEN /\ pending' = pending - 1
          /\ cur' = NoCur
          /\ pc' = "region"
          /\ gated' = "suppressed"
          /\ UNCHANGED <<clock, last_seen, admitted>>
     ELSE \E now2 \in {clock, clock + 1} :
          /\ now2 <= MaxTime
          /\ clock' = now2
          /\ last_seen' = UpdateCooldown(last_seen, cur.label, now2)
          /\ admitted' = admitted + 1
          /\ pc' = "save"
          /\ gated' = "admitted"
          /\ UNCHANGED <<pending, cur>>
  /\ UNCHANGED <<probe, args, cap, running, frame_count, stats, last_stats_emit, conn,
                 events, exc, audit>>

\* save_detection(...), stats["detections"] += 1, the event dict.
SaveDetection ==
  /\ pc = "save"
  /\ LET n == Normalize(cur.crop, args.max_crop)
     IN  IF n.raised
         THEN /\ Raise("cv2.error in save_detection")
              /\ UNCHANGED <<conn, stats, cur, audit>>
         ELSE \E ok \in BOOLEAN :
              IF ~ok
              THEN /\ Raise("sqlite3.Error in save_detection")
                   /\ UNCHANGED <<conn, stats, cur, audit>>
              ELSE /\ conn' = Append(conn,
                        [id |-> Len(conn) + 1, timestamp |-> clock,
                         camera_id |-> args.camera_id, label |-> cur.label,
                         confidence |-> cur.conf, llm_label |-> NULL,
                         llm_description |-> NULL, thumbnail |-> n.crop,
                         bbox |-> cur.bbox,
                         area |-> (cur.bbox[3] - cur.bbox[1])
                                  * (cur.bbox[4] - cur.bbox[2]),
                         sent_to_llm |-> FALSE])
                   /\ stats' = [stats EXCEPT !.detections = @ + 1]
                   /\ cur' = [cur EXCEPT !.det_id = Len(conn) + 1]
                   /\ audit' = Append(audit,
                        [admitted_at |-> last_seen[cur.label],
                         verify_calls |-> 0, posts |-> 0, updates |-> 0])
                   /\ pc' = "escalate"
                   /\ UNCHANGED <<exc, running, events>>
  /\ UNCHANGED <<probe, args, cap, clock, frame_count, last_stats_emit, last_seen,
                 pending, admitted, gated>>

\* The body of `if should_send_to_llm(...)` and its else, for the outcome
\* `send` of the condition: stats["llm_calls"] += 1 and the verifier call.
\* cur.vfailed remembers that the call could not succeed (no credentials, or
\* the POST or the reading of its body raised).
EscalateWhen(send) ==
  /\ pc = "escalate"
  /\ IF send
     THEN \E http \in HttpOutcomes :
          LET v == verify(args.api_key, cur.crop, cur.label, http)
          IN  /\ stats' = [stats EXCEPT !.llm_calls = @ + 1]
              /\ audit' = [audit EXCEPT
                   ![cur.det_id].verify_calls = @ + 1,
                   ![cur.det_id].posts = @ + (IF v.posted THEN 1 ELSE 0)]
              /\ IF v.raised
                 THEN /\ Raise("cv2.error in verify")
                      /\ UNCHANGED cur
                 ELSE /\ cur' = [cur EXCEPT
                           !.llm_label = v.llm_label,
                           !.llm_description = v.description,
                           !.vfailed = (args.api_key = "" \/ http.kind = "raise")]
                      /\ pc' = "update"
                      /\ UNCHANGED <<exc, running, events>>
     ELSE /\ pc' = "emit"
          /\ UNCHANGED <<stats, audit, cur, exc, running, events>>
  /\ UNCHANGED <<probe, args, cap, clock, frame_count, last_stats_emit, last_seen, conn,
                 pending, admitted, gated>>

Escalate_always == EscalateWhen(TRUE)

\* The escalation decision of process_frame.
Escalate ==
  EscalateWhen(should_send_to_llm(cur.label, cur.conf, args.llm_threshold,
                                  args.night_mode, TRUE))

update_detection_llm_no_flag(rows, det_id, llm_label, llm_description) ==
  [i \in DOMAIN rows |->
     IF rows[i].id = det_id
     THEN [rows[i] EXCEPT !.llm_label = llm_label,
                          !.llm_description = llm_description]
     ELSE rows[i]]

update_detection_llm_no_where(rows, det_id, llm_label, llm_description) ==
  [i \in DOMAIN rows |->
     [rows[i] EXCEPT !.llm_label = llm_label,
                     !.llm_description = llm_description,
                     !.sent_to_llm = TRUE]]

\* update_detection_llm(conn, det_id, llm_label, llm_desc)
update_detection_llm(rows, det_id, llm_label, llm_description) ==
  [i \in DOMAIN rows |->
     IF rows[i].id = det_id
     THEN [rows[i] EXCEPT !.llm_label = llm_label,
                          !.llm_description = llm_description,
                          !.sent_to_llm = TRUE]
     ELSE rows[i]]

\* update_detection_llm(...) and the event's llm fields.
Update ==
  /\ pc = "update"
  /\ \E ok \in BOOLEAN :
       IF ~ok
       THEN /\ Raise("sqlite3.Error in update_detection_llm")
            /\ UNCHANGED <<conn, cur, audit>>
       ELSE /\ conn' = update_detection_llm(conn, cur.det_id, cur.llm_label,
                                            cur.llm_description)
            /\ audit' = [audit EXCEPT ![cur.det_id].updates = @ + 1]
            /\ cur' = [cur EXCEPT !.sent_to_llm = TRUE]
            /\ pc' = "emit"
            /\ UNCHANGED <<exc, running, events>>
  /\ UNCHANGED <<probe, args, cap, clock, frame_count, stats, last_stats_emit, last_seen,
                 pending, admitted, gated>>

\* self._emit_event(event), and the loop goes to the next region.
Emit ==
  /\ pc = "emit"
  /\ events' = EmitEvent(events,
       [type |-> "detection", id |-> cur.det_id, label |-> cur.label,
        area |-> cur.area, sent_to_llm |-> cur.sent_to_llm,
        llm_label |-> IF cur.sent_to_llm THEN cur.llm_label ELSE NULL,
        llm_description |-> IF cur.sent_to_llm THEN cur.llm_description ELSE NULL])
  /\ pending' = pending - 1
  /\ cur' = NoCur
  /\ pc' = "region"
  /\ UNCHANGED <<probe, args, cap, running, clock, frame_count, stats, last_stats_emit,
                 last_seen, conn, exc, audit, admitted>>
  /\ gated' = "none"

Next ==
  \/ Open
  \/ StopSignal
  \/ Tick
  \/ LoopCheck
  \/ LoopExit
  \/ ReadFail
  \/ Reconnect
  \/ ReadFrame
  \/ Release
  \/ Report
  \/ FrameDone
  \/ Classify
  \/ Gate
  \/ SaveDetection
  \/ Escalate
  \/ Update
  \/ Emit

Spec == Init /\ [][Next]_vars

\* The steps of the pipeline's own thread.  It is the only thread, and every
\* call it blocks in returns (the read, the sleep, the inference, the POST
\* with timeout=15), so a step that stays possible is taken.
Progress ==
  \/ Open
  \/ LoopCheck
  \/ LoopExit
  \/ ReadFail
  \/ Reconnect
  \/ ReadFrame
  \/ Release
  \/ Report
  \/ FrameDone
  \/ Classify
  \/ Gate
  \/ SaveDetection
  \/ Escalate
  \/ Update
  \/ Emit

\* The runs the stop signal is followed in: events printed and not.
InitStop ==
  /\ args \in {BaseArgs, [BaseArgs EXCEPT !.output_events = FALSE]}
  /\ Constructed
  /\ probe = NoProbe

FairSpec == InitStop /\ [][Next]_vars /\ WF_vars(Progress)

\* ------------------------------------------------- the escalation policy
\* should_send_to_llm called as process_frame calls it, on every taxonomy
\* label and on confidences and thresholds around each other.
PolicyLevels == {0, 40, 59, 60, 61, 100}

InitPolicy ==
  /\ args = BaseArgs
  /\ Constructed
  /\ probe \in [fn : {"should_send_to_llm"}, label : CLASSES_10,
                confidence : PolicyLevels, threshold : PolicyLevels,
                night_mode : BOOLEAN, done : {FALSE}, result : {FALSE}]

CallPolicy ==
  /\ probe.fn = "should_send_to_llm"
  /\ ~probe.done
  /\ probe' = [probe EXCEPT
       !.done = TRUE,
       !.result = should_send_to_llm(probe.label, probe.confidence,
                                     probe.threshold, probe.night_mode, TRUE)]
  /\ UNCHANGED <<args, pc, running, cap, clock, frame_count, stats,
                 last_stats_emit, last_seen, conn, events, pending, cur, exc,
                 audit, admitted, gated>>

SpecPolicy == InitPolicy /\ [][CallPolicy]_vars

\* ------------------------------------- two instances on one store file
\* Two pipeline instances (cameras cam01 and cam02), each with its own
\* sqlite3 connection to the same database file, run the store calls of
\* process_frame for one region after the other.  conn is the committed
\* table.  A connection's execute() opens a transaction that holds the
\* file's write lock until its commit(); AUTOINCREMENT takes the next id
\* from the sequence, which is written in the same transaction.  A process
\* that is killed loses its open transaction and nothing else.
Writers == {1, 2}

CameraOf(w) == IF w = 1 THEN "cam01" ELSE "cam02"
LabelOf(w) == IF w = 1 THEN "person" ELSE "car"
BBoxOf(w) == IF w = 1 THEN <<10, 20, 210, 320>> ELSE <<100, 0, 105, 3000>>

NoTxn == [kind |-> "none", row |-> NULL]

IdleWriter == [pc |-> "idle", txn |-> NoTxn, det_id |-> 0, at |-> "none"]

\* The row the INSERT of save_detection writes for instance w.
InsertedRow(w, id) ==
  [id |-> id, timestamp |-> 0, camera_id |-> CameraOf(w),
   label |-> LabelOf(w), confidence |-> 60, llm_label |-> NULL,
   llm_description |-> NULL,
   thumbnail |-> Normalize(CropOf(BBoxOf(w)), BaseArgs.max_crop).crop,
   bbox |-> BBoxOf(w),
   area |-> (BBoxOf(w)[3] - BBoxOf(w)[1]) * (BBoxOf(w)[4] - BBoxOf(w)[2]),
   sent_to_llm |-> FALSE]

InitStore ==
  /\ args = BaseArgs
  /\ Constructed
  /\ probe = [fn |-> "store", lock |-> 0, seq |-> 0,
              w |-> [w \in Writers |-> IdleWriter],
              returned |-> << >>, emitted |-> {}]

StoreFrame ==
  UNCHANGED <<args, pc, running, cap, clock, frame_count, stats,
              last_stats_emit, last_seen, events, pending, cur, exc, audit,
              admitted, gated>>

ExecInsert_nolock(w) ==
  /\ probe.fn = "store"
  /\ probe.w[w].pc = "idle"
  /\ Len(conn) + Cardinality({v \in Writers : probe.w[v].txn.kind = "insert"})
       < MaxRows
  /\ probe' = [probe EXCEPT
       !.w[w].pc = "insert_open",
       !.w[w].txn = [kind |-> "insert", row |-> InsertedRow(w, probe.seq + 1)]]
  /\ UNCHANGED conn
  /\ StoreFrame

\* save_detection: conn.execute("INSERT ...").
ExecInsert(w) ==
  /\ probe.fn = "store"
  /\ probe.w[w].pc = "idle"
  /\ probe.lock = 0
  /\ Len(conn) < MaxRows
  /\ probe' = [probe EXCEPT
       !.lock = w,
       !.w[w].pc = "insert_open",
       !.w[w].txn = [kind |-> "insert", row |-> InsertedRow(w, probe.seq + 1)]]
  /\ UNCHANGED conn
  /\ StoreFrame

CommitInsert_skip(w) ==
  /\ probe.fn = "store"
  /\ probe.w[w].pc = "insert_open"
  /\ probe' = [probe EXCEPT
       !.w[w].pc = "escalate",
       !.w[w].det_id = probe.w[w].txn.row.id,
       !.returned = Append(@, [w |-> w, id |-> probe.w[w].txn.row.id])]
  /\ UNCHANGED conn
  /\ StoreFrame

\* save_detection: conn.commit(); return cur.lastrowid.
CommitInsert(w) ==
  /\ probe.fn = "store"
  /\ probe.w[w].pc = "insert_open"
  /\ conn' = Append(conn, probe.w[w].txn.row)
  /\ probe' = [probe EXCEPT
       !.lock = IF @ = w THEN 0 ELSE @,
       !.seq = Max(@, probe.w[w].txn.row.id),
       !.w[w].pc = "escalate",
       !.w[w].txn = NoTxn,
       !.w[w].det_id = probe.w[w].txn.row.id,
       !.returned = Append(@, [w |-> w, id |-> probe.w[w].txn.row.id])]
  /\ StoreFrame

\* process_frame: should_send_to_llm(...) is false.
SkipEscalation(w) ==
  /\ probe.fn = "store"
  /\ probe.w[w].pc = "escalate"
  /\ probe' = [probe EXCEPT !.w[w].pc = "emit"]
  /\ UNCHANGED conn
  /\ StoreFrame

\* update_detection_llm: conn.execute("UPDATE ... WHERE id=?"), after the
\* verifier call.
ExecUpdate(w) ==
  /\ probe.fn = "store"
  /\ probe.w[w].pc = "escalate"
  /\ probe.lock \in {0, w}
  /\ probe' = [probe EXCEPT
       !.lock = w,
       !.w[w].pc = "update_open",
       !.w[w].txn = [kind |-> "update", row |-> NULL]]
  /\ UNCHANGED conn
  /\ StoreFrame

\* update_detection_llm: conn.commit().
CommitUpdate(w) ==
  /\ probe.fn = "store"
  /\ probe.w[w].pc = "update_open"
  /\ conn' = update_detection_llm(conn, probe.w[w].det_id, LabelOf(w), "")
  /\ probe' = [probe EXCEPT
       !.lock = IF @ = w THEN 0 ELSE @,
       !.w[w].pc = "emit",
       !.w[w].txn = NoTxn]
  /\ StoreFrame

\* process_frame: self._emit_event(event); the next region.
EmitStored(w) ==
  /\ probe.fn = "store"
  /\ probe.w[w].pc = "emit"
  /\ probe' = [probe EXCEPT
       !.emitted = @ \cup {probe.w[w].det_id},
       !.w[w] = IdleWriter]
  /\ UNCHANGED conn
  /\ StoreFrame

\* execute() while the other connection holds the write lock: after the
\* connection's busy timeout sqlite3.OperationalError is raised and nothing
\* is written.
Busy(w) ==
  /\ probe.fn = "store"
  /\ probe.w[w].pc \in {"idle", "escalate"}
  /\ probe.lock \notin {0, w}
  /\ probe' = [probe EXCEPT !.w[w].pc = "failed", !.w[w].at = probe.w[w].pc]
  /\ UNCHANGED conn
  /\ StoreFrame

\* The process of instance w is killed (SIGKILL, power loss): its open
\* transaction is rolled back.
Kill(w) ==
  /\ probe.fn = "store"
  /\ probe.w[w].pc \notin {"crashed", "failed"}
  /\ probe' = [probe EXCEPT
       !.lock = IF @ = w THEN 0 ELSE @,
       !.w[w].pc = "crashed",
       !.w[w].txn = NoTxn,
       !.w[w].at = probe.w[w].pc]
  /\ UNCHANGED conn
  /\ StoreFrame

\* The instance is started again: MotionPipeline(args), init_db.
Restart(w) ==
  /\ probe.fn = "store"
  /\ probe.w[w].pc = "crashed"
  /\ probe' = [probe EXCEPT !.w[w] = IdleWriter]
  /\ UNCHANGED conn
  /\ StoreFrame

NextStore ==
  \E w \in Writers :
    \/ ExecInsert(w)
    \/ CommitInsert(w)
    \/ SkipEscalation(w)
    \/ ExecUpdate(w)
    \/ CommitUpdate(w)
    \/ EmitStored(w)
    \/ Busy(w)
    \/ Kill(w)
    \/ Restart(w)

SpecStore == InitStore /\ [][NextStore]_vars

\* C1: for every taxonomy label, confidence, threshold and night_mode,
\* should_send_to_llm as process_frame calls it returns true iff
\* confidence < threshold or (label is person and night_mode); a confidence
\* equal to the threshold escalates only under the night-person override.
EscalateIffLowOrNightPerson ==
  (probe.fn = "should_send_to_llm" /\ probe.done) =>
    (probe.result <=>
       (probe.confidence < probe.threshold
        \/ (probe.label = "person" /\ probe.night_mode)))

EscalateAtThresholdWitness ==
  /\ probe.fn = "should_send_to_llm"
  /\ probe.done
  /\ probe.confidence = probe.threshold
  /\ probe.label = "person"
  /\ ~probe.night_mode
  /\ ~probe.result

\* ------------------------------------------------------ the cooldown gate
\* C2: with cooldown window W, a region whose label was last admitted at t
\* and that reaches the gate at t' with t' - t < W is suppressed (the step
\* writes no record, emits no event, calls no verifier, and the region is
\* dropped), and one that reaches it with t' - t > W is admitted.
CooldownGateWindow ==
  [][(pc = "gate" /\ pc' # "gate" /\ cur.label \in DOMAIN last_seen) =>
       /\ (clock - last_seen[cur.label] < args.cooldown =>
             /\ gated' = "suppressed"
             /\ pc' = "region"
             /\ cur' = NoCur
             /\ pending' = pending - 1
             /\ conn' = conn
             /\ events' = events
             /\ audit' = audit
             /\ stats' = stats)
       /\ (clock - last_seen[cur.label] > args.cooldown =>
             /\ gated' = "admitted"
             /\ pc' = "save")]_vars

SuppressedInsideWindowWitness ==
  /\ gated = "suppressed"
  /\ pc = "region"
  /\ Len(conn) >= 1
  /\ stats.detections = Len(conn)

\* C3: any two records with the same label were admitted at least W apart
\* on the pipeline clock, also within one frame and across a verifier call.
SameLabelAdmittedWApart ==
  \A i \in DOMAIN conn : \A j \in DOMAIN conn :
    (i < j /\ conn[i].label = conn[j].label) =>
      audit[j].admitted_at - audit[i].admitted_at >= args.cooldown

SameLabelSameFrameWitness ==
  /\ Len(conn) = 2
  /\ conn[1].label = conn[2].label
  /\ conn[1].sent_to_llm
  /\ stats.processed = 1

\* C4: a suppressed region leaves the label -> last-seen map unchanged, and
\* the map changes only when the gate admits a region, and then only in the
\* entry of that region's label.
CooldownFrame ==
  [][/\ (pc = "gate" /\ gated' = "suppressed") => last_seen' = last_seen
     /\ (last_seen' # last_seen) =>
          /\ pc = "gate"
          /\ gated' = "admitted"
          /\ DOMAIN last_seen' = DOMAIN last_seen \cup {cur.label}
          /\ \A l \in DOMAIN last_seen :
               l # cur.label => last_seen'[l] = last_seen[l]]_vars

AdmittedBesideOtherLabelWitness ==
  /\ gated = "admitted"
  /\ pc = "save"
  /\ \E l \in DOMAIN last_seen : l # cur.label

\* ---------------------------------------------------------- escalation
\* The region whose record is i is still before its escalation decision.
Undecided(i) == pc = "escalate" /\ cur.det_id = i

\* C5: for every record, the verifier is invoked exactly once when the
\* escalation policy is true of its (label, confidence) and never
\* otherwise; whatever the call's outcome, it is not invoked again and
\* sends at most one request.
VerifierCalledOncePerEscalation ==
  \A i \in DOMAIN conn :
    /\ audit[i].verify_calls =
         IF ~Undecided(i)
            /\ should_send_to_llm(conn[i].label, conn[i].confidence,
                                  args.llm_threshold, args.night_mode, TRUE)
         THEN 1 ELSE 0
    /\ audit[i].posts <= audit[i].verify_calls

FailedCallNotRetriedWitness ==
  /\ pc = "emit"
  /\ cur.vfailed
  /\ args.api_key # ""
  /\ audit[cur.det_id].verify_calls = 1
  /\ audit[cur.det_id].posts = 1
  /\ Len(conn) = 2
  /\ audit[1].verify_calls = 0

\* C6: sent_to_llm is false in a record just created, it is true iff
\* llm_label and llm_description are set, and once true it stays true.
SentToLlmInv ==
  \A i \in DOMAIN conn :
    /\ conn[i].sent_to_llm <=> conn[i].llm_label # NULL
    /\ conn[i].sent_to_llm <=> conn[i].llm_description # NULL

SentToLlmStep ==
  /\ \A i \in DOMAIN conn' : i \notin DOMAIN conn => ~conn'[i].sent_to_llm
  /\ \A i \in DOMAIN conn :
       conn[i].sent_to_llm => (i \in DOMAIN conn' /\ conn'[i].sent_to_llm)

SentToLlmLifecycle == []SentToLlmInv /\ [][SentToLlmStep]_vars

SentWithEmptyDescriptionWitness ==
  \E i \in DOMAIN conn :
    /\ conn[i].sent_to_llm
    /\ conn[i].llm_description = ""
    /\ \E j \in DOMAIN conn : ~conn[j].sent_to_llm

\* C7: one record for every region that passed the gate and whose insert
\* has returned, none for a suppressed region; a record is updated by the
\* escalation update at most once; no record is ever deleted.
InsertOutstanding ==
  \/ pc = "save"
  \/ exc \in {"cv2.error in save_detection", "sqlite3.Error in save_detection"}

LifecycleInv ==
  /\ Len(conn) = admitted - (IF InsertOutstanding THEN 1 ELSE 0)
  /\ \A i \in DOMAIN conn : conn[i].id = i /\ audit[i].updates <= 1

LifecycleStep ==
  /\ Len(conn') >= Len(conn)
  /\ \A i \in DOMAIN conn : conn'[i].id = conn[i].id
  /\ (pc = "gate" /\ gated' = "suppressed") =>
       (conn' = conn /\ admitted' = admitted /\ pc' = "region")
  /\ (pc = "save" /\ pc' = "escalate") => Len(conn') = Len(conn) + 1

VerifierFallbackInv ==
  /\ (pc \in {"update", "emit"} /\ cur.vfailed) =>
       (cur.llm_label = cur.label /\ cur.llm_description = "")
  /\ (pc = "emit" /\ cur.vfailed) =>
       /\ conn[cur.det_id].llm_label = cur.label
       /\ conn[cur.det_id].llm_description = ""
       /\ conn[cur.det_id].sent_to_llm
       /\ conn[cur.det_id].label = cur.label

VerifierFallbackStep ==
  /\ (pc = "escalate" /\ pc' = "finally") => exc' = "cv2.error in verify"
  /\ (pc = "emit" /\ pc' # "emit") => pc' = "region"

VerifierFallback == []VerifierFallbackInv /\ [][VerifierFallbackStep]_vars

VerifierFailedWitness ==
  /\ pc = "emit"
  /\ cur.vfailed
  /\ args.api_key # ""
  /\ cur.label = "person"
  /\ conn[cur.det_id].sent_to_llm
  /\ pending > 1

\* ------------------------------------------------------- error handling
\* C9: no failure of the classifier stage or of the verifier stage for one
\* region, the resizing or encoding of its crop included, leaves
\* process_frame.
StageFailureStaysInFrame ==
  exc \notin {"cv2.error in classify", "cv2.error in verify"}

\* C10: a store failure while a region is processed (the insert or the
\* update raising) does not end the ingestion loop.
StoreFailureKeepsLoop ==
  exc \notin {"sqlite3.Error in save_detection",
              "sqlite3.Error in update_detection_llm"}

UnopenedSourceNeverFatal == pc # "exited"

\* run() is in its loop.
InRun ==
  pc \in {"loop", "read", "backoff", "region", "gate", "save", "escalate",
          "update", "emit"}

\* run() has ended through its finally block.
Stopped == pc \in {"stopped", "crashed"}

StoppedEvents ==
  Cardinality({i \in DOMAIN events : events[i].type = "stopped"})

StoppedInv ==
  /\ Stopped =>
       /\ cap = "released"
       /\ ~running
       /\ StoppedEvents = (IF args.output_events THEN 1 ELSE 0)
       /\ (args.output_events => events[Len(events)].type = "stopped")
  /\ ~Stopped => StoppedEvents = 0

\* C13: once the signal handler has cleared running while run() is in its
\* loop, streaming or waiting to reconnect, run() eventually ends through
\* its finally block: the final statistics are computed and the 'stopped'
\* event is emitted exactly once (printed when output_events is set); after
\* that nothing happens any more: no read, no write, no event.
StopSignalStops ==
  /\ (InRun /\ ~running) ~> Stopped
  /\ []StoppedInv
  /\ [][~Stopped]_vars

StoppedWhileReconnectingWitness ==
  /\ pc = "backoff"
  /\ ~running
  /\ Len(conn) >= 1

\* C14: a stop signal is not acted on inside a frame's cycle.  Whatever
\* running is, every region of the frame is classified, gated and, when
\* admitted, stored, escalated by the policy, updated and emitted; a region
\* is left only by suppression or by its event; control returns to the loop
\* check only when no region is left, and run() leaves the loop without an
\* exception only at the loop check.
MidCycle == {"region", "gate", "save", "escalate", "update", "emit"}

StopObservedBetweenCycles ==
  [][/\ (pc # "finally" /\ pc' = "finally" /\ exc' = NULL) =>
          (pc = "loop" /\ ~running)
     /\ (pc \in MidCycle /\ pc' \notin MidCycle) =>
          \/ pc = "region" /\ pending = 0 /\ pc' = "loop"
          \/ pc' = "finally" /\ exc' # NULL
     /\ (pc = "region" /\ pending > 0 /\ pc' \in MidCycle) =>
          pc' \in {"region", "gate"}
     /\ (pc = "gate" /\ pc' \in MidCycle) => pc' \in {"gate", "region", "save"}
     /\ (pc = "save" /\ pc' \in MidCycle) => pc' \in {"save", "escalate"}
     /\ (pc = "escalate" /\ pc' \in MidCycle) =>
          \/ pc' = "escalate"
          \/ pc' = IF should_send_to_llm(cur.label, cur.conf,
                                         args.llm_threshold, args.night_mode,
                                         TRUE)
                   THEN "update" ELSE "emit"
     /\ (pc = "update" /\ pc' \in MidCycle) => pc' \in {"update", "emit"}
     /\ (pc = "emit" /\ pc' # "emit") =>
          /\ pc' = "region"
          /\ events' = EmitEvent(events, events'[Len(events')])
     /\ (pc \in MidCycle /\ pending' # pending) =>
          /\ pending' = pending - 1
          /\ pc \in {"gate", "emit"}]_vars

StoppedMidCycleWitness ==
  /\ pc = "emit"
  /\ ~running
  /\ cur.sent_to_llm
  /\ pending = 2
  /\ exc = NULL

\* C15: the frame source is released only after the final statistics have
\* been computed and the 'stopped' event has been emitted.
ReportBeforeRelease == cap = "released" => Stopped

\* C16: the processed counter is floor(frames / process_every) and the
\* running index is the number of frames read, through read failures and
\* reconnects; a frame whose index is not a multiple of process_every is
\* dropped without touching the store or the cooldown map, and one whose
\* index is a multiple goes to process_frame.
SamplingInv ==
  /\ stats.processed = stats.frames \div args.process_every
  /\ frame_count = stats.frames

SamplingStep ==
  /\ (pc = "read" /\ pc' = "loop") =>
       /\ (frame_count + 1) % args.process_every # 0
       /\ stats'.frames = stats.frames + 1
       /\ stats'.processed = stats.processed
       /\ conn' = conn /\ last_seen' = last_seen /\ events' = events
  /\ (pc = "read" /\ pc' = "region") =>
       /\ (frame_count + 1) % args.process_every = 0
       /\ stats'.frames = stats.frames + 1
       /\ stats'.processed = stats.processed + 1
  /\ (pc = "backoff" /\ pc' = "loop") => frame_count' = frame_count

SamplingEveryNth == []SamplingInv /\ [][SamplingStep]_vars

SecondFrameSampledWitness ==
  /\ args.process_every = 2
  /\ pc = "region"
  /\ pending > 0
  /\ stats.frames = 2
  /\ stats.processed = 1
  /\ clock = BACKOFF

\* C17: no counter ever decreases; between frames processed <= frames,
\* llm_calls <= detections, detections is the number of records inserted
\* and llm_calls the number of those with sent_to_llm true.
FrameBoundary ==
  \/ pc \in {"loop", "read", "backoff"}
  \/ exc = NULL /\ pc \in {"finally", "report", "stopped"}

CountersInv ==
  FrameBoundary =>
    /\ stats.processed <= stats.frames
    /\ stats.llm_calls <= stats.detections
    /\ stats.detections = Len(conn)
    /\ stats.llm_calls = Cardinality({i \in DOMAIN conn : conn[i].sent_to_llm})

CountersStep ==
  /\ stats'.frames >= stats.frames
  /\ stats'.processed >= stats.processed
  /\ stats'.detections >= stats.detections
  /\ stats'.llm_calls >= stats.llm_calls

CountersMonotonic == []CountersInv /\ [][CountersStep]_vars

CountersWitness ==
  /\ pc = "loop"
  /\ stats.frames = 2
  /\ stats.processed = 2
  /\ stats.detections = 2
  /\ stats.llm_calls = 1

\* ------------------------------------------------------------ the store
\* C18: the record save_detection inserts carries the camera_id, label,
\* confidence and bbox it was given, with llm_label and llm_description
\* null and sent_to_llm false; update_detection_llm changes only llm_label,
\* llm_description and sent_to_llm of the record with the given id; every
\* other field and every other record stay as they were.
StoreRoundTrip ==
  [][/\ (pc = "save" /\ pc' = "escalate") =>
          /\ Len(conn') = Len(conn) + 1
          /\ \A i \in DOMAIN conn : conn'[i] = conn[i]
          /\ LET r == conn'[Len(conn')]
             IN  /\ r.id = cur'.det_id
                 /\ r.camera_id = args.camera_id
                 /\ r.label = cur.label
                 /\ r.confidence = cur.conf
                 /\ r.bbox = cur.bbox
                 /\ r.llm_label = NULL
                 /\ r.llm_description = NULL
                 /\ r.sent_to_llm = FALSE
     /\ (pc = "update" /\ pc' = "emit") =>
          /\ DOMAIN conn' = DOMAIN conn
          /\ \A i \in DOMAIN conn :
               IF conn[i].id = cur.det_id
               THEN conn'[i] =
                      [conn[i] EXCEPT !.llm_label = cur.llm_label,
                                      !.llm_description = cur.llm_description,
                                      !.sent_to_llm = TRUE]
               ELSE conn'[i] = conn[i]
     /\ (conn' # conn) => pc \in {"save", "update"}]_vars

UpdateBesideOtherRecordWitness ==
  /\ pc = "emit"
  /\ cur.det_id = 2
  /\ conn[2].sent_to_llm
  /\ ~conn[1].sent_to_llm
  /\ conn[1].label # conn[2].label
  /\ conn[1].bbox # conn[2].bbox

\* The committed record with the given id, as a set (empty when there is
\* none).
Committed(id) == {i \in DOMAIN conn : conn[i].id = id}

\* C19: ids are strictly increasing in insertion order and no two inserts
\* return the same id, also when two instances insert into the same store
\* concurrently; every record is the row one instance wrote, whole, changed
\* at most by that instance's own update.
IdsUniqueIncreasing ==
  /\ \A i \in DOMAIN conn : \A j \in DOMAIN conn :
       i < j => conn[i].id < conn[j].id
  /\ \A a \in DOMAIN probe.returned : \A b \in DOMAIN probe.returned :
       a < b => probe.returned[a].id < probe.returned[b].id
  /\ \A i \in DOMAIN conn : \E w \in Writers :
       conn[i] \in
         {InsertedRow(w, conn[i].id),
          [InsertedRow(w, conn[i].id) EXCEPT !.llm_label = LabelOf(w),
                                             !.llm_description = "",
                                             !.sent_to_llm = TRUE]}

InterleavedInsertsWitness ==
  /\ Len(conn) = 3
  /\ conn[1].camera_id = "cam01"
  /\ conn[2].camera_id = "cam02"
  /\ conn[3].camera_id = "cam01"
  /\ conn[2].sent_to_llm
  /\ probe.w[2].pc = "failed"

\* C20: a record whose id save_detection has returned is committed: it is
\* in the store whenever and wherever the process is killed afterwards; a
\* process killed between the insert and the commit of the escalation
\* update leaves the record with sent_to_llm false; and every record whose
\* event was emitted is committed.
DurableBeforeReturn ==
  /\ \A k \in DOMAIN probe.returned :
       \E i \in Committed(probe.returned[k].id) :
         conn[i].camera_id = CameraOf(probe.returned[k].w)
  /\ \A w \in Writers :
       (probe.w[w].pc = "crashed" /\ probe.w[w].at \in {"escalate", "update_open"}) =>
         /\ Committed(probe.w[w].det_id) # {}
         /\ \A i \in Committed(probe.w[w].det_id) : ~conn[i].sent_to_llm
  /\ \A w \in Writers :
       probe.w[w].pc = "emit" => Committed(probe.w[w].det_id) # {}
  /\ \A id \in probe.emitted : Committed(id) # {}

KilledBeforeUpdateCommitWitness ==
  \E w \in Writers :
    /\ probe.w[w].pc = "crashed"
    /\ probe.w[w].at = "update_open"
    /\ probe.w[w].det_id = 2
    /\ Len(conn) = 2
    /\ conn[1].sent_to_llm

\* ------------------------------------------------------- the statistics
\* Instants are seconds since the epoch.  A timestamp text is the record
\* [date, sep, time]: the day number written YYYY-MM-DD, the separator
\* character and the second of the day written HH:MM:SS.
DAY == 86400
HOUR == 3600
SLOT == 30

\* datetime.now().isoformat(): the naive local wall clock, 'T' between date
\* and time; utcoffset is the local zone's offset at that instant.
isoformat(t, utcoffset) ==
  [date |-> (t + utcoffset) \div DAY, sep |-> "T", time |-> (t + utcoffset) % DAY]

\* SQLite datetime('now', '-N hours'): UTC, a space between date and time.
sqlite_datetime(now, hours) ==
  [date |-> (now - hours * HOUR) \div DAY, sep |-> " ",
   time |-> (now - hours * HOUR) % DAY]

\* The code point of a separator character.
Ord(sep) == IF sep = "T" THEN 84 ELSE 32

\* a > b on two TEXT values (BINARY collation): the first differing
\* character decides.  The separator is the 11th character.
TextGreater(a, b) ==
  \/ a.date > b.date
  \/ a.date = b.date /\ Ord(a.sep) > Ord(b.sep)
  \/ a.date = b.date /\ a.sep = b.sep /\ a.time > b.time

\* SQLite strftime('%s', ts) and strftime('%H', ts): the text read as UTC.
strftime_s(ts) == ts.date * DAY + ts.time
strftime_H(ts) == ts.time \div HOUR

\* Python round(n / d, 0) on a non-negative quotient: ties go to the even
\* neighbour.
RoundHalfEven(n, d) ==
  LET q == n \div d
      r == n % d
  IN  IF 2 * r < d THEN q
      ELSE IF 2 * r > d THEN q + 1
      ELSE IF q % 2 = 0 THEN q ELSE q + 1

llm_reduction_pct_sent(total, llm_sent) ==
  RoundHalfEven(1000 * llm_sent, Max(total, 1))

\* round((1 - llm_sent / max(total, 1)) * 100, 1), in tenths of a percent.
llm_reduction_pct(total, llm_sent) ==
  RoundHalfEven(1000 * (Max(total, 1) - llm_sent), Max(total, 1))

Where_any_camera(row, camera_id, cutoff) ==
  TextGreater(row.timestamp, cutoff)

\* The WHERE clause get_statistics builds.
Where(row, camera_id, cutoff) ==
  /\ TextGreater(row.timestamp, cutoff)
  /\ (camera_id # NULL /\ camera_id # "") => row.camera_id = camera_id

UniqueKeys_all_labels(rows, sel) ==
  {<<strftime_s(rows[i].timestamp) \div SLOT, rows[i].label>> : i \in sel}

\* The values COUNT(DISTINCT ...) counts: slot || '_' || label.
UniqueKeys(rows, sel) ==
  {<<strftime_s(rows[i].timestamp) \div SLOT, rows[i].label>> :
     i \in {j \in sel : rows[j].label \in {"person", "car", "truck"}}}

get_statistics_total_of_table(rows, camera_id, hours, now) ==
  LET cutoff == sqlite_datetime(now, hours)
      sel == {i \in DOMAIN rows : Where(rows[i], camera_id, cutoff)}
      llm_sent == Cardinality({i \in sel : rows[i].sent_to_llm})
  IN  [by_class |->
         [l \in {rows[i].label : i \in sel} |->
            Cardinality({i \in sel : rows[i].label = l})],
       by_hour |->
         [h \in {strftime_H(rows[i].timestamp) : i \in sel} |->
            Cardinality({i \in sel : strftime_H(rows[i].timestamp) = h})],
       unique_events_30s |-> Cardinality(UniqueKeys(rows, sel)),
       total |-> Len(rows),
       llm_sent |-> llm_sent,
       llm_reduction_pct |-> llm_reduction_pct(Len(rows), llm_sent)]

\* get_statistics(conn, camera_id, hours) run at instant now on the table
\* rows.
get_statistics(rows, camera_id, hours, now) ==
  LET cutoff == sqlite_datetime(now, hours)
      sel == {i \in DOMAIN rows : Where(rows[i], camera_id, cutoff)}
      total == Cardinality(sel)
      llm_sent == Cardinality({i \in sel : rows[i].sent_to_llm})
  IN  [by_class |->
         [l \in {rows[i].label : i \in sel} |->
            Cardinality({i \in sel : rows[i].label = l})],
       by_hour |->
         [h \in {strftime_H(rows[i].timestamp) : i \in sel} |->
            Cardinality({i \in sel : strftime_H(rows[i].timestamp) = h})],
       unique_events_30s |-> Cardinality(UniqueKeys(rows, sel)),
       total |-> total,
       llm_sent |-> llm_sent,
       llm_reduction_pct |-> llm_reduction_pct(total, llm_sent)]

\* The largest total the percentage is computed on, and the largest table
\* the statistics are computed on.
MaxTotal == 10
MaxStatRows == 2

\* The instant the oldest query is made at: 20:00:00 UTC on day 10.
T0 == 10 * DAY + 20 * HOUR

\* What save_detection wrote and when: `created` is the instant of the
\* insert (history), `timestamp` the text it stored.
StatRow(back, utcoffset, camera_id, label, sent) ==
  [created |-> T0 - back, timestamp |-> isoformat(T0 - back, utcoffset),
   camera_id |-> camera_id, label |-> label, sent_to_llm |-> sent]

\* Records of two cameras, written seconds, hours and days before T0, one
\* of them before the local clock was set back an hour.
StatRows ==
  {StatRow(10, 0, "cam01", "person", FALSE),
   StatRow(20, 0, "cam01", "person", TRUE),
   StatRow(40, 0, "cam01", "person", FALSE),
   StatRow(10, 0, "cam02", "car", FALSE),
   StatRow(10, 0, "cam01", "cat", TRUE),
   StatRow(HOUR + 10, HOUR, "cam01", "person", FALSE),
   StatRow(2 * HOUR, 0, "cam01", "truck", FALSE),
   StatRow(3 * DAY, 0, "cam01", "truck", TRUE)}

\* A table of the rows in S, oldest first (rows of one instant in either
\* order).
RECURSIVE Tables(_)
Tables(S) ==
  IF S = {} THEN {<< >>}
  ELSE UNION {{Append(t, r) : t \in Tables(S \ {r})} :
                r \in {x \in S : \A y \in S : y.created <= x.created}}

InitStats ==
  /\ args = BaseArgs
  /\ Constructed
  /\ \/ \E total \in 0..MaxTotal : \E llm_sent \in 0..total :
          probe = [fn |-> "llm_reduction_pct", total |-> total,
                   llm_sent |-> llm_sent, done |-> FALSE, result |-> 0]
     \/ \E S \in SUBSET StatRows :
          /\ Cardinality(S) <= MaxStatRows
          /\ \E rows \in Tables(S) :
             \E camera_id \in {NULL, "", "cam01"} :
             \E hours \in {1, 24} :
             \E now \in {T0, T0 + 5 * HOUR} :
               probe = [fn |-> "get_statistics", rows |-> rows,
                        camera_id |-> camera_id, hours |-> hours,
                        now |-> now, done |-> FALSE, result |-> << >>]

CallPct ==
  /\ probe.fn = "llm_reduction_pct"
  /\ ~probe.done
  /\ probe' = [probe EXCEPT
       !.done = TRUE,
       !.result = llm_reduction_pct(probe.total, probe.llm_sent)]
  /\ UNCHANGED <<args, pc, running, cap, clock, frame_count, stats,
                 last_stats_emit, last_seen, conn, events, pending, cur, exc,
                 audit, admitted, gated>>

CallStats ==
  /\ probe.fn = "get_statistics"
  /\ ~probe.done
  /\ probe' = [probe EXCEPT
       !.done = TRUE,
       !.result = get_statistics(probe.rows, probe.camera_id, probe.hours,
                                 probe.now)]
  /\ UNCHANGED <<args, pc, running, cap, clock, frame_count, stats,
                 last_stats_emit, last_seen, conn, events, pending, cur, exc,
                 audit, admitted, gated>>

NextStats == CallPct \/ CallStats

SpecStats == InitStats /\ [][NextStats]_vars

\* The statistics call at hand, once it has returned.
StatsReturned == probe.fn = "get_statistics" /\ probe.done

\* r tenths of a percent is 100 * (1 - s / t) rounded to one decimal.
NearestTenth(r, t, s) ==
  /\ 2 * (r * t - 1000 * (t - s)) <= t
  /\ 2 * (1000 * (t - s) - r * t) <= t

\* C21: llm_reduction_pct is 100 * (1 - llm_sent / total) rounded to one
\* decimal when total > 0 (60.0 for 10 records of which 4 were escalated),
\* it is 100.0 when total = 0, nothing is divided by zero, and the value
\* is always within 0..100.  Percentages are in tenths.
ReductionPct ==
  /\ (probe.fn = "llm_reduction_pct" /\ probe.done) =>
       /\ probe.result \in 0..1000
       /\ probe.total = 0 => probe.result = 1000
       /\ probe.total > 0 =>
            NearestTenth(probe.result, probe.total, probe.llm_sent)
       /\ (probe.total = 10 /\ probe.llm_sent = 4) => probe.result = 600
  /\ StatsReturned =>
       /\ probe.result.llm_sent <= probe.result.total
       /\ probe.result.llm_reduction_pct \in 0..1000
       /\ probe.result.total = 0 => probe.result.llm_reduction_pct = 1000
       /\ probe.result.total > 0 =>
            NearestTenth(probe.result.llm_reduction_pct, probe.result.total,
                         probe.result.llm_sent)

TenWithFourEscalatedWitness ==
  /\ probe.fn = "llm_reduction_pct"
  /\ probe.done
  /\ probe.total = 10
  /\ probe.llm_sent = 4
  /\ probe.result = 600

\* The rows of the table the WHERE clause selects.
Selected ==
  {i \in DOMAIN probe.rows :
     Where(probe.rows[i], probe.camera_id,
           sqlite_datetime(probe.now, probe.hours))}

\* The 30-second slots of the selected rows labelled l.
SlotsOf(l) ==
  {strftime_s(probe.rows[i].timestamp) \div SLOT :
     i \in {j \in Selected : probe.rows[j].label = l}}

InWindow ==
  {i \in DOMAIN probe.rows :
     /\ probe.rows[i].created > probe.now - probe.hours * HOUR
     /\ (probe.camera_id # NULL /\ probe.camera_id # "") =>
          probe.rows[i].camera_id = probe.camera_id}

\* C23: get_statistics(camera_id, hours) counts a record iff it was
\* created later than the query instant minus `hours` hours and, when a
\* camera_id is given, it is that camera's; no statistic counts a record
\* created before the cutoff.
WindowByInstant ==
  StatsReturned =>
    /\ probe.result.total = Cardinality(InWindow)
    /\ probe.result.llm_sent =
         Cardinality({i \in InWindow : probe.rows[i].sent_to_llm})
    /\ \A l \in DOMAIN probe.result.by_class :
         probe.result.by_class[l] =
           Cardinality({i \in InWindow : probe.rows[i].label = l})

\* ---------------------------------------------------- the motion segmenter
\* A frame is its (height, width).  A contour is its bounding rectangle
\* (x, y, w, h) in the resized frame and twice its cv2.contourArea (the
\* area of a pixel polygon is a multiple of one half).
MaxContours == 2

AreaAdmitted_inclusive(area2, min_area, max_area) ==
  2 * min_area <= area2 /\ area2 <= 2 * max_area

\* min_area < area < max_area
AreaAdmitted(area2, min_area, max_area) ==
  2 * min_area < area2 /\ area2 < 2 * max_area

Min(a, b) == IF a < b THEN a ELSE b

CropBox_unclamped(cnt, small) ==
  LET pad == Min(cnt.rect[3], cnt.rect[4]) \div 10
  IN  <<cnt.rect[1] - pad, cnt.rect[2] - pad,
        cnt.rect[1] + cnt.rect[3] + pad, cnt.rect[2] + cnt.rect[4] + pad>>

\* The padded, clipped box of a contour and the crop it cuts out of the
\* resized frame `small`.
CropBox(cnt, small) ==
  LET x == cnt.rect[1]
      y == cnt.rect[2]
      w == cnt.rect[3]
      h == cnt.rect[4]
      pad == Min(w, h) \div 10
  IN  <<Max(0, x - pad), Max(0, y - pad),
        Min(small[2], x + w + pad), Min(small[1], y + h + pad)>>

\* The body of `for cnt in contours` over the contours findContours
\* returned, in order.
RECURSIVE CropsOf(_, _, _, _)
CropsOf(contours, small, min_area, max_area) ==
  IF contours = << >> THEN << >>
  ELSE LET cnt == Head(contours)
           bbox == CropBox(cnt, small)
           rest == CropsOf(Tail(contours), small, min_area, max_area)
       IN  IF /\ AreaAdmitted(cnt.area2, min_area, max_area)
              /\ bbox[4] - bbox[2] > 0
              /\ bbox[3] - bbox[1] > 0
           THEN <<[crop |-> CropOf(bbox), bbox |-> bbox,
                   area |-> cnt.area2 \div 2]>> \o rest
           ELSE rest

\* extract_moving_objects(frame, bg_subtractor, min_area, max_area,
\* target_width); `contours` is what background subtraction, the two
\* morphological operations and findContours make of the resized frame.
extract_moving_objects(frame, contours, min_area, max_area, target_width) ==
  CropsOf(contours, <<(frame[1] * target_width) \div frame[2], target_width>>,
          min_area, max_area)

DEFAULT_MIN_AREA == 2000
DEFAULT_MAX_AREA == 200000
TARGET_WIDTH == 640

\* Frames of a 720p and of a VGA source.
Frames == {<<720, 1280>>, <<480, 640>>}

\* Contour areas around both limits, each with a bounding rectangle that
\* can hold it.
Contours ==
  {[rect |-> <<100, 100, 60, 60>>, area2 |-> a] :
     a \in {2 * DEFAULT_MIN_AREA - 1, 2 * DEFAULT_MIN_AREA,
            2 * DEFAULT_MIN_AREA + 1, 2 * DEFAULT_MIN_AREA + 2}}
  \cup
  {[rect |-> <<0, 0, 640, 360>>, area2 |-> a] :
     a \in {2 * DEFAULT_MAX_AREA - 2, 2 * DEFAULT_MAX_AREA - 1,
            2 * DEFAULT_MAX_AREA, 2 * DEFAULT_MAX_AREA + 1}}

\* Frames without pixels: an empty array, and one of no rows.
EmptyFrames == {<<0, 0>>, <<0, 640>>}

\* The first two statements of extract_moving_objects raise:
\* target_width / frame.shape[1] divides by zero on a frame of width 0,
\* and cv2.resize raises cv2.error on a frame without pixels.
extract_raises(frame, target_width) ==
  frame[2] = 0 \/ frame[1] = 0

InitSegment ==
  /\ args = BaseArgs
  /\ Constructed
  /\ \E frame \in Frames \cup EmptyFrames :
     \E n \in 0..MaxContours :
     \E contours \in [1..n -> Contours] :
       /\ frame \in EmptyFrames => n = 0
       /\ probe = [fn |-> "extract_moving_objects", frame |-> frame,
                   contours |-> contours, min_area |-> DEFAULT_MIN_AREA,
                   max_area |-> DEFAULT_MAX_AREA, done |-> FALSE,
                   raised |-> FALSE, result |-> << >>]

CallExtract ==
  /\ probe.fn = "extract_moving_objects"
  /\ ~probe.done
  /\ probe' =
       IF extract_raises(probe.frame, TARGET_WIDTH)
       THEN [probe EXCEPT !.done = TRUE, !.raised = TRUE]
       ELSE [probe EXCEPT
               !.done = TRUE,
               !.result = extract_moving_objects(probe.frame, probe.contours,
                                                 probe.min_area, probe.max_area,
                                                 TARGET_WIDTH)]
  /\ UNCHANGED <<args, pc, running, cap, clock, frame_count, stats,
                 last_stats_emit, last_seen, conn, events, pending, cur, exc,
                 audit, admitted, gated>>

SpecSegment == InitSegment /\ [][CallExtract]_vars

\* The contours of the call at hand whose area is exactly a.
WithArea(a) == {i \in DOMAIN probe.contours : probe.contours[i].area2 = 2 * a}

\* The regions returned with area a.
ReturnedWithArea(a) == {k \in DOMAIN probe.result : probe.result[k].area = a}

\* C24: both bounds of the area filter are strict.  The regions returned
\* are those of the contours with min_area < area < max_area: a contour of
\* area exactly min_area or exactly max_area yields none, one of area
\* min_area + 1 or max_area - 1 yields one.
AreaFilterStrict ==
  (probe.fn = "extract_moving_objects" /\ probe.done) =>
    /\ Len(probe.result) =
         Cardinality({i \in DOMAIN probe.contours :
            /\ probe.min_area * 2 < probe.contours[i].area2
            /\ probe.contours[i].area2 < probe.max_area * 2})
    /\ ReturnedWithArea(probe.max_area) = {}
    /\ \A k \in ReturnedWithArea(probe.min_area) :
         \E i \in DOMAIN probe.contours :
           probe.contours[i].area2 = 2 * probe.min_area + 1
    /\ Cardinality(ReturnedWithArea(probe.min_area + 1)) =
         Cardinality(WithArea(probe.min_area + 1))
    /\ Cardinality(ReturnedWithArea(probe.max_area - 1)) >=
         Cardinality(WithArea(probe.max_area - 1))

AreaAtBoundsWitness ==
  /\ probe.fn = "extract_moving_objects"
  /\ probe.done
  /\ WithArea(probe.min_area) # {}
  /\ WithArea(probe.min_area + 1) # {}
  /\ Len(probe.result) = 1
  /\ probe.result[1].area = probe.min_area + 1

\* ------------------------------------------- crops, classifier, verifier
\* The largest side and budget the normalisation is tried on exhaustively.
MaxSide == 6

\* Crops of the 640-wide working frame: an ordinary one, one wider than
\* every budget below 640, and a thin one.
RegionCrops == {<<300, 200>>, <<400, 640>>, <<5, 640>>}

\* Values of --max-crop below, at and above the verifier's own 500.
CropBudgets == {100, 300, 500, 1000}

\* ModelOutputs, with a class name outside YOLO_TO_10_CLASSES, a class id
\* outside model.names (read as "unknown") and confidences on both sides
\* of the threshold.
RawOutputs ==
  {[kind |-> "raise", name |-> "", conf |-> 0],
   [kind |-> "nobox", name |-> "", conf |-> 0]}
  \cup [kind : {"box"}, name : {"person", "toaster", "unknown"},
        conf : {30, 90}]

LongerSide(crop) == Max(crop[1], crop[2])

\* What process_frame does with the crop and the labels of one region the
\* gate admitted, under configuration a: classify, save_detection,
\* should_send_to_llm, verify.  model_input is the image self.model is
\* called on, thumbnail the image stored, posted the image sent to the
\* verifier (NULL where there is none).
process_region(a, crop, out, http) ==
  LET c == classify(a.model_loaded, crop, a.max_crop, out)
      t == Normalize(c.crop, a.max_crop)
      send == should_send_to_llm(c.label, c.conf, a.llm_threshold,
                                 a.night_mode, TRUE)
      v == verify(a.api_key, c.crop, c.label, http)
      p == Normalize(c.crop, DEFAULT_MAX_PX)
      none == [raised |-> TRUE, model_input |-> NULL, label |-> NULL,
               thumbnail |-> NULL, sent |-> FALSE, posted |-> NULL,
               llm_label |-> NULL]
  IN  IF c.raised THEN none
      ELSE LET classified ==
                 [none EXCEPT
                    !.model_input = IF a.model_loaded THEN c.crop ELSE NULL,
                    !.label = c.label]
           IN  IF t.raised THEN classified
               ELSE LET saved == [classified EXCEPT !.thumbnail = t.crop]
                    IN  IF ~send THEN [saved EXCEPT !.raised = FALSE]
                        ELSE IF v.raised THEN [saved EXCEPT !.sent = TRUE]
                        ELSE [saved EXCEPT
                                !.raised = FALSE, !.sent = TRUE,
                                !.posted = IF v.posted THEN p.crop ELSE NULL,
                                !.llm_label = v.llm_label]

InitCrop ==
  /\ args = BaseArgs
  /\ Constructed
  /\ \/ \E h \in 1..MaxSide, w \in 1..MaxSide, max_px \in 1..MaxSide :
          probe = [fn |-> "normalize", crop |-> <<h, w>>, max_px |-> max_px,
                   done |-> FALSE,
                   result |-> [raised |-> FALSE, crop |-> <<h, w>>],
                   again |-> [raised |-> FALSE, crop |-> <<h, w>>]]
     \/ \E model_loaded \in BOOLEAN, crop \in RegionCrops,
           max_px \in CropBudgets, out \in RawOutputs :
          probe = [fn |-> "classify", model_loaded |-> model_loaded,
                   crop |-> crop, max_px |-> max_px, out |-> out,
                   done |-> FALSE, result |-> << >>]
     \/ \E model_loaded \in BOOLEAN, crop \in RegionCrops,
           max_crop \in CropBudgets, out \in RawOutputs,
           http \in HttpOutcomes :
          probe = [fn |-> "process_region",
                   a |-> [BaseArgs EXCEPT !.model_loaded = model_loaded,
                                          !.max_crop = max_crop],
                   crop |-> crop, out |-> out, http |-> http,
                   done |-> FALSE, result |-> << >>]

ProbeOnly ==
  UNCHANGED <<args, pc, running, cap, clock, frame_count, stats,
              last_stats_emit, last_seen, conn, events, pending, cur, exc,
              audit, admitted, gated>>

\* The normalisation, and the normalisation of its result.
CallNormalize ==
  /\ probe.fn = "normalize"
  /\ ~probe.done
  /\ LET n == Normalize(probe.crop, probe.max_px)
     IN  probe' = [probe EXCEPT
           !.done = TRUE,
           !.result = n,
           !.again = IF n.raised THEN n ELSE Normalize(n.crop, probe.max_px)]
  /\ ProbeOnly

CallClassify ==
  /\ probe.fn = "classify"
  /\ ~probe.done
  /\ probe' = [probe EXCEPT
       !.done = TRUE,
       !.result = classify(probe.model_loaded, probe.crop, probe.max_px,
                           probe.out)]
  /\ ProbeOnly

CallRegion ==
  /\ probe.fn = "process_region"
  /\ ~probe.done
  /\ probe' = [probe EXCEPT
       !.done = TRUE,
       !.result = process_region(probe.a, probe.crop, probe.out, probe.http)]
  /\ ProbeOnly

NextCrop == CallNormalize \/ CallClassify \/ CallRegion

SpecCrop == InitCrop /\ [][NextCrop]_vars

\* C25: for every h, w and budget M >= 1 the crop normalisation returns an
\* image whose longer side is at most M, returns the image unchanged when
\* max(h, w) <= M, and is idempotent.
NormalizeWithinBudget ==
  (probe.fn = "normalize" /\ probe.done) =>
    /\ ~probe.result.raised
    /\ LongerSide(probe.result.crop) <= probe.max_px
    /\ LongerSide(probe.crop) <= probe.max_px => probe.result.crop = probe.crop
    /\ probe.again = probe.result

\* An image is within budget M: there is none, or its longer side is at
\* most M.
Within(img, M) == img = NULL \/ LongerSide(img) <= M

\* C26: for every detection and crop budget M (max_crop), the stored
\* thumbnail, the image given to the local classifier and the image sent
\* to the remote verifier all have a longer side of at most M, whether
\* the model is loaded or not.
ImagesWithinBudget ==
  (probe.fn = "process_region" /\ probe.done) =>
    /\ Within(probe.result.thumbnail, probe.a.max_crop)
    /\ Within(probe.result.model_input, probe.a.max_crop)
    /\ Within(probe.result.posted, probe.a.max_crop)

\* C27: classify never propagates an error.  With the model not loaded,
\* the inference raising or no box returned it yields unknown with
\* confidence 0; otherwise the taxonomy label mapped from the first box,
\* unknown for a raw label outside the mapping.
ClassifyNeverRaises ==
  (probe.fn = "classify" /\ probe.done) =>
    /\ ~probe.result.raised
    /\ (~probe.model_loaded \/ probe.out.kind # "box") =>
         (probe.result.label = "unknown" /\ probe.result.conf = 0)
    /\ (probe.model_loaded /\ probe.out.kind = "box") =>
         /\ probe.result.conf = probe.out.conf
         /\ probe.result.label =
              IF probe.out.name \in CLASSES_10 THEN probe.out.name
              ELSE "unknown"

\* C28: the label of every record and every llm_label that is not null is
\* one of the ten taxonomy labels, whatever the classifier returned and
\* whatever text the verifier answered.
LabelsInTaxonomy ==
  (probe.fn = "process_region" /\ probe.done) =>
    /\ probe.result.thumbnail # NULL => probe.result.label \in CLASSES_10
    /\ probe.result.llm_label # NULL => probe.result.llm_label \in CLASSES_10

ForeignLabelsCoercedWitness ==
  /\ probe.fn = "process_region"
  /\ probe.done
  /\ probe.out.kind = "box"
  /\ probe.out.name = "toaster"
  /\ probe.http.kind = "ok"
  /\ probe.http.text.head = "alien"
  /\ probe.result.thumbnail # NULL
  /\ probe.result.label = "unknown"
  /\ probe.result.posted # NULL
  /\ probe.result.llm_label = "unknown"

\* -------------------------------------- two runs on the same inputs
\* One run of the pipeline as a record s: where run() is (start, loop,
\* frame, finally, stopped, crashed, exited), the table, the cooldown map,
\* the counters and the lines printed.  Each operator below is one step of
\* run() or process_frame as a function of the configuration a, the run
\* and the inputs of the step.
NewRun ==
  [pc |-> "start", conn |-> << >>, last_seen |-> << >>,
   stats |-> [frames |-> 0, processed |-> 0, detections |-> 0, llm_calls |-> 0],
   last_stats_emit |-> 0, frame_count |-> 0, events |-> << >>]

\* run() up to the while loop; opened is cap.isOpened().
run_open(a, s, opened) ==
  IF opened
  THEN [s EXCEPT !.pc = "loop",
                 !.events = emit_event(a.output_events, @, LifecycleEvent("started"))]
  ELSE [s EXCEPT !.pc = "exited"]

\* One cap.read() that returned a frame: the counters and the sampling.
run_read(a, s) ==
  IF (s.frame_count + 1) % a.process_every # 0
  THEN [s EXCEPT !.frame_count = @ + 1, !.stats.frames = @ + 1]
  ELSE [s EXCEPT !.frame_count = @ + 1, !.stats.frames = @ + 1,
                 !.stats.processed = @ + 1, !.pc = "frame"]

\* The body of `for obj in crops` for one region: i.obj is the region,
\* i.out what the model does, i.http what the verifier request does, i.db
\* which store call fails (none, insert, update).
process_obj(a, s, i, now) ==
  LET c == classify(a.model_loaded, CropOf(i.obj.bbox), a.max_crop, i.out)
      failed == [s EXCEPT !.pc = "finally"]
  IN  IF c.raised THEN failed
      ELSE IF IsInCooldown(s.last_seen, c.label, now, a.cooldown) THEN s
      ELSE
        LET s1 == [s EXCEPT !.last_seen = UpdateCooldown(@, c.label, now)]
            n == Normalize(c.crop, a.max_crop)
            det_id == Len(s.conn) + 1
            row == [id |-> det_id, timestamp |-> now,
                    camera_id |-> a.camera_id, label |-> c.label,
                    confidence |-> c.conf, llm_label |-> NULL,
                    llm_description |-> NULL, thumbnail |-> n.crop,
                    bbox |-> i.obj.bbox,
                    area |-> (i.obj.bbox[3] - i.obj.bbox[1])
                             * (i.obj.bbox[4] - i.obj.bbox[2]),
                    sent_to_llm |-> FALSE]
            event == [type |-> "detection", id |-> det_id, label |-> c.label,
                      area |-> i.obj.area, sent_to_llm |-> FALSE,
                      llm_label |-> NULL,
                      llm_description |-> NULL]
            s2 == [s1 EXCEPT !.conn = Append(@, row),
                             !.stats.detections = @ + 1]
            s3 == [s2 EXCEPT !.stats.llm_calls = @ + 1]
            v == verify(a.api_key, c.crop, c.label, i.http)
        IN  IF n.raised \/ i.db = "insert"
            THEN [s1 EXCEPT !.pc = "finally"]
            ELSE IF ~should_send_to_llm(c.label, c.conf, a.llm_threshold,
                                        a.night_mode, TRUE)
            THEN [s2 EXCEPT !.events = emit_event(a.output_events, @, event)]
            ELSE IF v.raised \/ i.db = "update"
            THEN [s3 EXCEPT !.pc = "finally"]
            ELSE [s3 EXCEPT
                    !.conn = update_detection_llm(@, det_id, v.llm_label,
                                                  v.description),
                    !.events = emit_event(a.output_events, @,
                       [event EXCEPT !.sent_to_llm = TRUE,
                                     !.llm_label = v.llm_label,
                                     !.llm_description = v.description])]

\* self._maybe_emit_stats(), after process_frame returned.
maybe_emit_stats(a, s, now) ==
  IF now - s.last_stats_emit >= a.stats_interval
  THEN [s EXCEPT !.pc = "loop", !.last_stats_emit = now,
                 !.events = emit_event(a.output_events, @, LifecycleEvent("stats"))]
  ELSE [s EXCEPT !.pc = "loop"]

\* The finally block of run().
run_finally(a, s) ==
  [s EXCEPT !.pc = IF s.pc = "finally" THEN "crashed" ELSE "stopped",
            !.events = emit_event(a.output_events, @, LifecycleEvent("stopped"))]

\* Regions processed by one run.
MaxObjs == 3

\* What one region's processing meets: every region and model output with
\* the verifier answering inside the taxonomy and no store failure, and
\* the ordinary region with no box found (escalated) under every verifier
\* outcome and every store failure.
ObjInputs ==
  [obj : Regions, out : ModelOutputs,
   http : {h \in HttpOutcomes : h.kind = "ok" /\ ~h.text.sep},
   db : {"none"}]
  \cup
  [obj : {r \in Regions : r.area = 30000},
   out : {o \in ModelOutputs : o.kind = "nobox"},
   http : {h \in HttpOutcomes : h.why \in {"", "timeout"}},
   db : {"none", "insert", "update"}]

\* The configurations with events on; each is run beside itself with
\* events off.
PairConfigs == {a \in Configs : a.output_events}

Off(a) == [a EXCEPT !.output_events = FALSE]

InitPair ==
  /\ args = BaseArgs
  /\ Constructed
  /\ \E a \in PairConfigs :
       probe = [fn |-> "pair", a |-> a, clock |-> 0, objs |-> 0,
                on |-> NewRun, off |-> NewRun]

PairOpen ==
  /\ probe.fn = "pair"
  /\ probe.on.pc = "start"
  /\ \E opened \in BOOLEAN :
       probe' = [probe EXCEPT !.on = run_open(probe.a, @, opened),
                              !.off = run_open(Off(probe.a), @, opened)]
  /\ ProbeOnly

PairTick ==
  /\ probe.fn = "pair"
  /\ probe.on.pc \in {"loop", "frame"}
  /\ probe.clock < MaxTime
  /\ probe' = [probe EXCEPT !.clock = @ + 1]
  /\ ProbeOnly

PairRead ==
  /\ probe.fn = "pair"
  /\ probe.on.pc = "loop"
  /\ probe.on.stats.frames < MaxFrames
  /\ probe' = [probe EXCEPT !.on = run_read(probe.a, @),
                            !.off = run_read(Off(probe.a), @)]
  /\ ProbeOnly

PairObj ==
  /\ probe.fn = "pair"
  /\ probe.on.pc = "frame"
  /\ probe.objs < MaxObjs
  /\ \E i \in ObjInputs :
       probe' = [probe EXCEPT
         !.objs = @ + 1,
         !.on = process_obj(probe.a, @, i, probe.clock),
         !.off = process_obj(Off(probe.a), @, i, probe.clock)]
  /\ ProbeOnly

PairFrameDone ==
  /\ probe.fn = "pair"
  /\ probe.on.pc = "frame"
  /\ probe' = [probe EXCEPT
       !.on = maybe_emit_stats(probe.a, @, probe.clock),
       !.off = maybe_emit_stats(Off(probe.a), @, probe.clock)]
  /\ ProbeOnly

PairStop ==
  /\ probe.fn = "pair"
  /\ probe.on.pc \in {"loop", "finally"}
  /\ probe' = [probe EXCEPT !.on = run_finally(probe.a, @),
                            !.off = run_finally(Off(probe.a), @)]
  /\ ProbeOnly

NextPair ==
  PairOpen \/ PairTick \/ PairRead \/ PairObj \/ PairFrameDone \/ PairStop

SpecPair == InitPair /\ [][NextPair]_vars

\* C29: events are written only when output_events is enabled, and the
\* flag has no other effect.  Of two runs on the same inputs, one with the
\* flag on and one with it off, the store contents, the cooldown map and
\* the counters are identical (at every step, so at the end), and the run
\* with the flag off emits no event at all.
OutputEventsOnlyGatesOutput ==
  probe.fn = "pair" =>
    /\ probe.on.conn = probe.off.conn
    /\ probe.on.last_seen = probe.off.last_seen
    /\ probe.on.stats = probe.off.stats
    /\ probe.on.pc = probe.off.pc
    /\ probe.off.events = << >>

EventsOnlyWhenEnabledWitness ==
  /\ probe.fn = "pair"
  /\ probe.on.pc = "stopped"
  /\ probe.off.pc = "stopped"
  /\ Len(probe.on.conn) = 2
  /\ probe.on.conn[2].sent_to_llm
  /\ probe.on.stats.llm_calls = 1
  /\ Len(probe.on.events) >= 4
  /\ probe.off.events = << >>

\* The detection events printed for record k.
DetectionEvents(k) ==
  {j \in DOMAIN events : events[j].type = "detection" /\ events[j].id = k}

\* Record k is the one process_frame is working on, between its insert and
\* its event.
RecordInFlight(k) ==
  cur.det_id = k /\ pc \in {"escalate", "update", "emit"}

RECURSIVE SumOf(_)
SumOf(f) ==
  IF DOMAIN f = {} THEN 0
  ELSE LET k == CHOOSE x \in DOMAIN f : TRUE
       IN  f[k] + SumOf([x \in DOMAIN f \ {k} |-> f[x]])

WorkingFrame ==
  <<(probe.frame[1] * TARGET_WIDTH) \div probe.frame[2], TARGET_WIDTH>>

\* box is the rectangle rect grown by p on each side, cut at the borders
\* of the working frame.
GrownAndClamped(box, rect, p) ==
  /\ box[1] = (IF rect[1] >= p THEN rect[1] - p ELSE 0)
  /\ box[2] = (IF rect[2] >= p THEN rect[2] - p ELSE 0)
  /\ box[3] = (IF rect[1] + rect[3] + p <= WorkingFrame[2]
               THEN rect[1] + rect[3] + p ELSE WorkingFrame[2])
  /\ box[4] = (IF rect[2] + rect[4] + p <= WorkingFrame[1]
               THEN rect[2] + rect[4] + p ELSE WorkingFrame[1])

\* C35: the box of every region returned is the bounding rectangle of its
\* contour grown on each side by floor(0.1 * min(w, h)) and clamped to the
\* working frame: 0 <= x1 < x2 <= frame width, 0 <= y1 < y2 <= frame
\* height, and the box contains the rectangle.
PaddedBoxClamped ==
  (probe.fn = "extract_moving_objects" /\ probe.done) =>
    \A k \in DOMAIN probe.result :
      LET box == probe.result[k].bbox
      IN  /\ 0 <= box[1] /\ box[1] < box[3] /\ box[3] <= WorkingFrame[2]
          /\ 0 <= box[2] /\ box[2] < box[4] /\ box[4] <= WorkingFrame[1]
          /\ \E i \in DOMAIN probe.contours :
               LET rect == probe.contours[i].rect
               IN  /\ probe.contours[i].area2 \div 2 = probe.result[k].area
                   /\ GrownAndClamped(box, rect,
                        (IF rect[3] < rect[4] THEN rect[3] ELSE rect[4]) \div 10)
                   /\ box[1] <= rect[1] /\ rect[1] + rect[3] <= box[3]
                   /\ box[2] <= rect[2] /\ rect[2] + rect[4] <= box[4]

PaddedInsideAndClampedWitness ==
  /\ probe.fn = "extract_moving_objects"
  /\ probe.done
  /\ probe.frame = <<720, 1280>>
  /\ Len(probe.result) = 2
  /\ probe.result[1].bbox = <<94, 94, 166, 166>>
  /\ probe.result[2].bbox = <<0, 0, 640, 360>>

\* C38: for every detection, the area stored in the record equals the
\* area reported in its detection event, and both equal the area of the
\* candidate region that passed the area filter.
AreaSameInRecordAndEvent ==
  /\ \A k \in DOMAIN conn : RecordInFlight(k) => conn[k].area = cur.area
  /\ \A j \in DOMAIN events :
       events[j].type = "detection" => events[j].area = conn[events[j].id].area

\* C33: motion segmentation never throws across its call boundary: for a
\* malformed or empty frame (no pixels, zero width) extract_moving_objects
\* returns zero regions.
SegmenterNeverThrows ==
  (probe.fn = "extract_moving_objects" /\ probe.done) =>
    /\ ~probe.raised
    /\ probe.frame \in EmptyFrames => probe.result = << >>

\* ------------------------------------------------ phonetic.normalize
\* A text is the sequence of its characters, each a one-character string;
\* a letter outside ASCII is written by its code point ("U+0142").
\* _SORTED_RULES: PHONETIC_RULES as <<spoken, replacement>> pairs, longest
\* spoken form first, rules of one length in the order of the table.
SORTED_RULES ==
  <<
    <<<<"h", "a", " ", "t", "e", " ", "t", "e", " ", "p", "e", " ", "e", "s", " ", "d", "w", "a", " ", "k", "r", "o", "p", "k", "i", " ", "s", "l", "a", "s", "h", " ", "s", "l", "a", "s", "h">>,
      <<"h", "t", "t", "p", "s", ":", "/", "/">>>>,
    <<<<"h", "a", " ", "t", "e", " ", "t", "e", " ", "p", "e", " ", "d", "w", "a", " ", "k", "r", "o", "p", "k", "i", " ", "s", "l", "a", "s", "h", " ", "s", "l", "a", "s", "h">>,
      <<"h", "t", "t", "p", ":", "/", "/">>>>,
    <<<<"h", "t", "t", "p", "s", " ", "d", "w", "a", " ", "k", "r", "o", "p", "k", "i", " ", "s", "l", "a", "s", "h", " ", "s", "l", "a", "s", "h">>,
      <<"h", "t", "t", "p", "s", ":", "/", "/">>>>,
    <<<<"h", "t", "t", "p", " ", "d", "w", "a", " ", "k", "r", "o", "p", "k", "i", " ", "s", "l", "a", "s", "h", " ", "s", "l", "a", "s", "h">>,
      <<"h", "t", "t", "p", ":", "/", "/">>>>,
    <<<<"h", "a", " ", "t", "e", " ", "t", "e", " ", "p", "e", " ", "e", "s">>,
      <<"h", "t", "t", "p", "s">>>>,
    <<<<"h", "a", " ", "t", "e", " ", "t", "e", " ", "p", "e">>,
      <<"h", "t", "t", "p">>>>,
    <<<<"p", "o", "d", "k", "r", "e", "U+015B", "l", "n", "i", "k">>,
      <<"_">>>>,
    <<<<"u", "n", "d", "e", "r", "s", "c", "o", "r", "e">>,
      <<"_">>>>,
    <<<<"d", "w", "u", "k", "r", "o", "p", "e", "k">>,
      <<":">>>>,
    <<<<"w", "u", " ", "w", "u", " ", "w", "u">>,
      <<"w", "w", "w">>>>,
    <<<<"u", "k", "o", "U+015B", "n", "i", "k">>,
      <<"/">>>>,
    <<<<"m", "y", "U+015B", "l", "n", "i", "k">>,
      <<"-">>>>,
    <<<<"o", " ", "e", "r", " ", "g", "e">>,
      <<"o", "r", "g">>>>,
    <<<<"k", "r", "o", "p", "k", "a">>,
      <<".">>>>,
    <<<<"t", "r", "z", "y", " ", "w">>,
      <<"w", "w", "w">>>>,
    <<<<"w", "u", "w", "u", "w", "u">>,
      <<"w", "w", "w">>>>,
    <<<<"j", "u", " ", "k", "e", "j">>,
      <<"u", "k">>>>,
    <<<<"s", "l", "a", "s", "h">>,
      <<"/">>>>,
    <<<<"s", "l", "a", "s", "z">>,
      <<"/">>>>,
    <<<<"m", "a", "U+0142", "p", "a">>,
      <<"@">>>>,
    <<<<"c", "o", "l", "o", "n">>,
      <<":">>>>,
    <<<<"p", "e", " ", "e", "l">>,
      <<"p", "l">>>>,
    <<<<"p", "e", "-", "e", "l">>,
      <<"p", "l">>>>,
    <<<<"o", "e", "r", "g", "e">>,
      <<"o", "r", "g">>>>,
    <<<<"j", "u", " ", "e", "s">>,
      <<"u", "s">>>>,
    <<<<"d", "o", "t", "t">>,
      <<".">>>>,
    <<<<"d", "a", "s", "h">>,
      <<"-">>>>,
    <<<<"t", "i", "r", "e">>,
      <<"-">>>>,
    <<<<"p", "e", "e", "l">>,
      <<"p", "l">>>>,
    <<<<"d", "e", " ", "i">>,
      <<"d", "e", "v">>>>,
    <<<<"d", "e", " ", "e">>,
      <<"d", "e">>>>,
    <<<<"i", "e", " ", "u">>,
      <<"e", "u">>>>,
    <<<<"d", "o", "t">>,
      <<".">>>>,
    <<<<"k", "o", "m">>,
      <<"c", "o", "m">>>>,
    <<<<"d", "e", "i">>,
      <<"d", "e", "v">>>>,
    <<<<"n", "e", "t">>,
      <<"n", "e", "t">>>>,
    <<<<"i", " ", "u">>,
      <<"e", "u">>>>,
    <<<<"a", "t">>,
      <<"@">>>>
  >>

\* str.lower() and str.upper() on one character.
char_lower(c) ==
  CASE c = "A" -> "a"
    [] c = "B" -> "b"
    [] c = "C" -> "c"
    [] c = "D" -> "d"
    [] c = "E" -> "e"
    [] c = "F" -> "f"
    [] c = "G" -> "g"
    [] c = "H" -> "h"
    [] c = "I" -> "i"
    [] c = "J" -> "j"
    [] c = "K" -> "k"
    [] c = "L" -> "l"
    [] c = "M" -> "m"
    [] c = "N" -> "n"
    [] c = "O" -> "o"
    [] c = "P" -> "p"
    [] c = "Q" -> "q"
    [] c = "R" -> "r"
    [] c = "S" -> "s"
    [] c = "T" -> "t"
    [] c = "U" -> "u"
    [] c = "V" -> "v"
    [] c = "W" -> "w"
    [] c = "X" -> "x"
    [] c = "Y" -> "y"
    [] c = "Z" -> "z"
    [] c = "U+0104" -> "U+0105"
    [] c = "U+0106" -> "U+0107"
    [] c = "U+0118" -> "U+0119"
    [] c = "U+0141" -> "U+0142"
    [] c = "U+0143" -> "U+0144"
    [] c = "U+00D3" -> "U+00F3"
    [] c = "U+015A" -> "U+015B"
    [] c = "U+0179" -> "U+017A"
    [] c = "U+017B" -> "U+017C"
    [] OTHER -> c

char_upper(c) ==
  CASE c = "a" -> "A"
    [] c = "b" -> "B"
    [] c = "c" -> "C"
    [] c = "d" -> "D"
    [] c = "e" -> "E"
    [] c = "f" -> "F"
    [] c = "g" -> "G"
    [] c = "h" -> "H"
    [] c = "i" -> "I"
    [] c = "j" -> "J"
    [] c = "k" -> "K"
    [] c = "l" -> "L"
    [] c = "m" -> "M"
    [] c = "n" -> "N"
    [] c = "o" -> "O"
    [] c = "p" -> "P"
    [] c = "q" -> "Q"
    [] c = "r" -> "R"
    [] c = "s" -> "S"
    [] c = "t" -> "T"
    [] c = "u" -> "U"
    [] c = "v" -> "V"
    [] c = "w" -> "W"
    [] c = "x" -> "X"
    [] c = "y" -> "Y"
    [] c = "z" -> "Z"
    [] c = "U+0105" -> "U+0104"
    [] c = "U+0107" -> "U+0106"
    [] c = "U+0119" -> "U+0118"
    [] c = "U+0142" -> "U+0141"
    [] c = "U+0144" -> "U+0143"
    [] c = "U+00F3" -> "U+00D3"
    [] c = "U+015B" -> "U+015A"
    [] c = "U+017A" -> "U+0179"
    [] c = "U+017C" -> "U+017B"
    [] OTHER -> c

str_lower_none(s) == s

\* text.lower()
str_lower(s) == [i \in DOMAIN s |-> char_lower(s[i])]

str_upper(s) == [i \in DOMAIN s |-> char_upper(s[i])]

\* The characters \s matches and str.strip() strips.
Whitespace == {" ", "\t", "\n"}

\* s without its leading whitespace.
RECURSIVE SkipWs(_)
SkipWs(s) ==
  IF s # << >> /\ Head(s) \in Whitespace THEN SkipWs(Tail(s)) ELSE s

\* s without its trailing characters that are in the set chars.
RECURSIVE RStrip(_, _)
RStrip(s, chars) ==
  IF s # << >> /\ s[Len(s)] \in chars
  THEN RStrip(SubSeq(s, 1, Len(s) - 1), chars)
  ELSE s

\* text.strip()
str_strip(s) == RStrip(SkipWs(s), Whitespace)

\* old is a prefix of s.
StartsWith(s, old) ==
  Len(s) >= Len(old) /\ SubSeq(s, 1, Len(old)) = old

\* s.replace(old, new): the occurrences of old from the left, not
\* overlapping.
RECURSIVE str_replace(_, _, _)
str_replace(s, old, new) ==
  IF Len(s) < Len(old) THEN s
  ELSE IF StartsWith(s, old)
  THEN new \o str_replace(SubSeq(s, Len(old) + 1, Len(s)), old, new)
  ELSE <<Head(s)>> \o str_replace(Tail(s), old, new)

\* for spoken, replacement in _SORTED_RULES: result = result.replace(...),
\* from rule k on.
RECURSIVE ApplyRules(_, _)
ApplyRules(s, k) ==
  IF k > Len(SORTED_RULES) THEN s
  ELSE ApplyRules(str_replace(s, SORTED_RULES[k][1], SORTED_RULES[k][2]), k + 1)

\* re.sub(r"\s*C\s*", "C", s) for the punctuation character ch: matches
\* are taken from the left, each with the whitespace on both its sides.
RECURSIVE re_sub_ws_around(_, _)
re_sub_ws_around(s, ch) ==
  IF s = << >> THEN << >>
  ELSE LET t == SkipWs(s)
       IN  IF t # << >> /\ Head(t) = ch
           THEN <<ch>> \o re_sub_ws_around(SkipWs(Tail(t)), ch)
           ELSE <<Head(s)>> \o re_sub_ws_around(Tail(s), ch)

\* ".." in s
HasDoubleDot(s) ==
  \E i \in 1..(Len(s) - 1) : s[i] = "." /\ s[i + 1] = "."

\* while ".." in result: result = result.replace("..", ".")
RECURSIVE collapse_dots(_)
collapse_dots(s) ==
  IF HasDoubleDot(s) THEN collapse_dots(str_replace(s, <<".", ".">>, <<".">>))
  ELSE s

\* phonetic.normalize(text)
normalize(text) ==
  LET r1 == str_strip(str_lower(text))
      r2 == ApplyRules(r1, 1)
      r3 == re_sub_ws_around(r2, ".")
      r4 == re_sub_ws_around(r3, "/")
      r5 == re_sub_ws_around(r4, ":")
      r6 == re_sub_ws_around(r5, "@")
      r7 == str_replace(r6, <<" ">>, << >>)
      r8 == collapse_dots(r7)
  IN  RStrip(r8, {"."})

\* The longest text normalised, and the characters the texts are made of:
\* the letters of "dot" and "at" in both cases, the dot and two kinds of
\* whitespace.
MaxLen == 4
Alphabet == {"d", "o", "t", "a", "D", "T", ".", " ", "\t"}

InitPhonetic ==
  /\ args = BaseArgs
  /\ Constructed
  /\ \E n \in 0..MaxLen :
     \E text \in [1..n -> Alphabet] :
       probe = [fn |-> "phonetic.normalize", text |-> text, done |-> FALSE,
                result |-> << >>, of_lower |-> << >>, of_upper |-> << >>]

\* normalize on the text, on its lower-case form and on its upper-case
\* form.
CallPhonetic ==
  /\ probe.fn = "phonetic.normalize"
  /\ ~probe.done
  /\ probe' = [probe EXCEPT
       !.done = TRUE,
       !.result = normalize(probe.text),
       !.of_lower = normalize(str_lower(probe.text)),
       !.of_upper = normalize(str_upper(probe.text))]
  /\ ProbeOnly

SpecPhonetic == InitPhonetic /\ [][CallPhonetic]_vars

\* C34: for every input, phonetic.normalize returns a string without two
\* consecutive dots that does not end with a dot; it returns the empty
\* string for an empty input and for one of spaces only; the result does
\* not depend on the letter case of the input.
NormalizeDotsAndCase ==
  (probe.fn = "phonetic.normalize" /\ probe.done) =>
    /\ ~HasDoubleDot(probe.result)
    /\ probe.result # << >> => probe.result[Len(probe.result)] # "."
    /\ (\A i \in DOMAIN probe.text : probe.text[i] = " ") =>
         probe.result = << >>
    /\ probe.result = probe.of_lower
    /\ probe.result = probe.of_upper

DotsCollapsedAnyCaseWitness ==
  /\ probe.fn = "phonetic.normalize"
  /\ probe.done
  /\ probe.text = <<"a", "D", "o", "T">>
  /\ probe.result = <<"a">>

\* ------------------------------------------- main(), signals and handles
\* One process from main() on.  Beside the run record of the pipeline the
\* state holds: whether main() has installed the signal handlers,
\* pipeline.running, whether a stop signal has been delivered to the
\* handler (history), and every frame-source handle run() has created, the
\* last one being `cap`: whether it is open and how often it was released.

\* cv2.VideoCapture(self.args.rtsp); opened is what isOpened() will say.
VideoCapture(handles, opened) ==
  Append(handles, [open |-> opened, released |-> 0])

\* cap.release()
release(handles) ==
  [handles EXCEPT ![Len(handles)].open = FALSE,
                  ![Len(handles)].released = @ + 1]

reconnect_no_release(handles, opened) == VideoCapture(handles, opened)

\* cap.release(); cap = cv2.VideoCapture(self.args.rtsp)
reconnect(handles, opened) == VideoCapture(release(handles), opened)

InitMain ==
  /\ args = BaseArgs
  /\ Constructed
  /\ \E a \in {BaseArgs, [BaseArgs EXCEPT !.process_every = 2]} :
       probe = [fn |-> "main", a |-> a, handlers |-> FALSE,
                running |-> FALSE, signalled |-> FALSE, clock |-> 0,
                objs |-> 0, handles |-> << >>, run |-> NewRun]

\* signal.signal(SIGTERM, _handle_signal); signal.signal(SIGINT, ...)
MainInstall ==
  /\ probe.fn = "main"
  /\ ~probe.handlers
  /\ probe' = [probe EXCEPT !.handlers = TRUE]
  /\ ProbeOnly

\* _handle_signal, at any moment from the installation of the handlers
\* to the end of run().
MainSignal ==
  /\ probe.fn = "main"
  /\ probe.handlers
  /\ probe.run.pc \notin {"stopped", "crashed", "exited"}
  /\ probe' = [probe EXCEPT !.running = FALSE, !.signalled = TRUE]
  /\ ProbeOnly

\* pipeline.run() up to the loop: the source is opened, sys.exit(1) when
\* it is not open, else the 'started' event and self.running = True.
MainOpen ==
  /\ probe.fn = "main"
  /\ probe.handlers
  /\ probe.run.pc = "start"
  /\ \E opened \in BOOLEAN :
       probe' = [probe EXCEPT
         !.handles = VideoCapture(@, opened),
         !.run = run_open(probe.a, @, opened),
         !.running = IF opened THEN TRUE ELSE @]
  /\ ProbeOnly

MainTick ==
  /\ probe.fn = "main"
  /\ probe.run.pc \in {"loop", "frame"}
  /\ probe.clock < MaxTime
  /\ probe' = [probe EXCEPT !.clock = @ + 1]
  /\ ProbeOnly

\* while self.running: cap.read() returns a frame.
MainRead ==
  /\ probe.fn = "main"
  /\ probe.run.pc = "loop"
  /\ probe.running
  /\ probe.handles[Len(probe.handles)].open
  /\ probe.run.stats.frames < MaxFrames
  /\ probe' = [probe EXCEPT !.run = run_read(probe.a, @)]
  /\ ProbeOnly

\* while self.running: cap.read() fails; time.sleep(2), cap.release(),
\* cap = cv2.VideoCapture(...), continue.
MainReadFail ==
  /\ probe.fn = "main"
  /\ probe.run.pc = "loop"
  /\ probe.running
  /\ probe.clock + BACKOFF <= MaxTime
  /\ \E opened \in BOOLEAN :
       probe' = [probe EXCEPT !.clock = @ + BACKOFF,
                              !.handles = reconnect(@, opened)]
  /\ ProbeOnly

MainObj ==
  /\ probe.fn = "main"
  /\ probe.run.pc = "frame"
  /\ probe.objs < MaxObjs
  /\ \E i \in ObjInputs :
       probe' = [probe EXCEPT
         !.objs = @ + 1,
         !.run = process_obj(probe.a, @, i, probe.clock)]
  /\ ProbeOnly

MainFrameDone ==
  /\ probe.fn = "main"
  /\ probe.run.pc = "frame"
  /\ probe' = [probe EXCEPT !.run = maybe_emit_stats(probe.a, @, probe.clock)]
  /\ ProbeOnly

\* The loop ends (self.running is false at its head, or an exception left
\* process_frame) and the finally block runs.
MainFinally ==
  /\ probe.fn = "main"
  /\ \/ probe.run.pc = "loop" /\ ~probe.running
     \/ probe.run.pc = "finally"
  /\ probe' = [probe EXCEPT !.handles = release(@),
                            !.running = FALSE,
                            !.run = run_finally(probe.a, @)]
  /\ ProbeOnly

NextMain ==
  \/ MainInstall
  \/ MainSignal
  \/ MainOpen
  \/ MainTick
  \/ MainRead
  \/ MainReadFail
  \/ MainObj
  \/ MainFrameDone
  \/ MainFinally

SpecMain == InitMain /\ [][NextMain]_vars

\* C36: no stop request is lost.  A stop signal delivered at any moment
\* after main() has installed the handlers, also while run() is still
\* opening the stream and has not yet set running to true, makes run()
\* terminate and emit the 'stopped' event: once a signal was delivered
\* running stays false, so the loop ends at its next check.
NoStopRequestLost ==
  (probe.fn = "main" /\ probe.signalled) => ~probe.running

\* The handles that are open.
OpenHandles ==
  {h \in DOMAIN probe.handles : probe.handles[h].open}

\* C37: run() never holds two open frame-source handles: on reconnect the
\* old handle is released before the new one is opened; no handle is
\* released twice; and when run() has left its loop, by a stop signal or
\* by an exception from frame processing, every handle it created has been
\* released exactly once.
OneHandleReleasedOnce ==
  probe.fn = "main" =>
    /\ Cardinality(OpenHandles) <= 1
    /\ OpenHandles \subseteq {Len(probe.handles)}
    /\ \A h \in DOMAIN probe.handles : probe.handles[h].released <= 1
    /\ \A h \in DOMAIN probe.handles :
         h < Len(probe.handles) => probe.handles[h].released = 1
    /\ probe.run.pc \in {"stopped", "crashed"} =>
         \A h \in DOMAIN probe.handles :
           ~probe.handles[h].open /\ probe.handles[h].released = 1

ReconnectedThenCrashedWitness ==
  /\ probe.fn = "main"
  /\ probe.run.pc = "crashed"
  /\ Len(probe.handles) = 2
  /\ probe.handles[1].released = 1
  /\ probe.handles[2].released = 1
  /\ Len(probe.run.conn) >= 1

\* ------------------------------------------------- no local model loaded
\* LocalClassifier.model is None and --llm-threshold is above 0.
ModelUnavailable == ~args.model_loaded /\ args.llm_threshold > 0

\* C40: when the local classifier is unavailable and the escalation
\* threshold is above 0, every region is labelled unknown with confidence
\* 0.0, so all regions share the one cooldown entry (two Detections are at
\* least a cooldown window apart however many regions move) and every
\* Detection written is escalated: between frames llm_calls = detections.
NoModelAllEscalated ==
  ModelUnavailable =>
    /\ pc \in {"gate", "save", "escalate", "update", "emit"} =>
         cur.label = "unknown" /\ cur.conf = 0
    /\ \A k \in DOMAIN conn :
         conn[k].label = "unknown" /\ conn[k].confidence = 0
    /\ DOMAIN last_seen \subseteq {"unknown"}
    /\ \A j, k \in DOMAIN conn :
         j < k => conn[k].timestamp - conn[j].timestamp >= args.cooldown
    /\ FrameBoundary =>
         /\ stats.llm_calls = stats.detections
         /\ \A k \in DOMAIN conn : conn[k].sent_to_llm

TwoUnknownEscalatedWitness ==
  /\ ModelUnavailable
  /\ pc = "loop"
  /\ Len(conn) = 2
  /\ stats.detections = 2
  /\ stats.llm_calls = 2
  /\ stats.processed = 2

\* --------------------------------------- two pipelines on the same store
\* Two MotionPipeline instances, one per camera, opened on the same
\* database file.  Each has the state its own __init__ created (last_seen,
\* stats) and its own position in process_frame: idle, or between the
\* insert of a record and the update that follows its verification.  The
\* table is shared; `written_by` and `created` of a row are history.
InstanceArgs(w) == [BaseArgs EXCEPT !.camera_id = CameraOf(w)]

\* MotionPipeline.__init__: the state of one instance.
NewInstance ==
  [pc |-> "idle", last_seen |-> << >>,
   stats |-> [frames |-> 0, processed |-> 0, detections |-> 0, llm_calls |-> 0],
   det_id |-> 0, label |-> NULL, crop |-> NULL,
   gate |-> [label |-> NULL, at |-> 0, outcome |-> "none", det_id |-> 0]]

InitShared ==
  /\ args = BaseArgs
  /\ Constructed
  /\ probe = [fn |-> "shared", clock |-> 0, rows |-> << >>,
              inst |-> [w \in Writers |-> NewInstance],
              snapshot |-> [by |-> 0, len |-> 0, result |-> NULL]]

SharedTick ==
  /\ probe.fn = "shared"
  /\ probe.clock < MaxTime
  /\ probe' = [probe EXCEPT !.clock = @ + 1]
  /\ ProbeOnly

\* Instance w, one region: classify, the cooldown gate, save_detection,
\* the counters and the escalation decision.
SharedDetect(w) ==
  /\ probe.fn = "shared"
  /\ probe.inst[w].pc = "idle"
  /\ Len(probe.rows) < MaxRows
  /\ \E obj \in {r \in Regions : r.area = 30000},
        out \in {o \in ModelOutputs : o.kind = "nobox" \/ o.name = "person"} :
       LET a == InstanceArgs(w)
           me == probe.inst[w]
           c == classify(a.model_loaded, CropOf(obj.bbox), a.max_crop, out)
           det_id == Len(probe.rows) + 1
           row == [id |-> det_id,
                   timestamp |-> isoformat(T0 + probe.clock, 0),
                   camera_id |-> a.camera_id, label |-> c.label,
                   confidence |-> c.conf, llm_label |-> NULL,
                   llm_description |-> NULL, sent_to_llm |-> FALSE,
                   written_by |-> w, created |-> probe.clock]
           send == should_send_to_llm(c.label, c.conf, a.llm_threshold,
                                      a.night_mode, TRUE)
       IN  IF IsInCooldown(me.last_seen, c.label, probe.clock, a.cooldown)
           THEN probe' = [probe EXCEPT
                  !.inst[w].gate = [label |-> c.label, at |-> probe.clock,
                                    outcome |-> "suppressed", det_id |-> 0]]
           ELSE probe' = [probe EXCEPT
                  !.rows = Append(@, row),
                  !.inst[w] = [me EXCEPT
                     !.last_seen = UpdateCooldown(@, c.label, probe.clock),
                     !.stats.detections = @ + 1,
                     !.stats.llm_calls = IF send THEN @ + 1 ELSE @,
                     !.pc = IF send THEN "verify" ELSE "idle",
                     !.det_id = det_id, !.label = c.label, !.crop = c.crop,
                     !.gate = [label |-> c.label, at |-> probe.clock,
                               outcome |-> "admitted", det_id |-> det_id]]]
  /\ ProbeOnly

\* Instance w: the verifier call returned, update_detection_llm.
SharedUpdate(w) ==
  /\ probe.fn = "shared"
  /\ probe.inst[w].pc = "verify"
  /\ \E http \in {h \in HttpOutcomes : h.why = "timeout"} :
       LET me == probe.inst[w]
           v == verify(InstanceArgs(w).api_key, me.crop, me.label, http)
       IN  probe' = [probe EXCEPT
             !.rows = update_detection_llm(@, me.det_id, v.llm_label,
                                           v.description),
             !.inst[w].pc = "idle"]
  /\ ProbeOnly

\* Instance w between two regions: get_statistics(self.conn,
\* self.args.camera_id).  `len` is the size of the table at that moment.
SharedStats(w) ==
  /\ probe.fn = "shared"
  /\ probe.inst[w].pc = "idle"
  /\ probe.rows # << >>
  /\ probe' = [probe EXCEPT !.snapshot =
       [by |-> w, len |-> Len(probe.rows),
        result |-> get_statistics(probe.rows, InstanceArgs(w).camera_id, 24,
                                  T0 + probe.clock)]]
  /\ ProbeOnly

NextShared ==
  \/ SharedTick
  \/ \E w \in Writers :
       \/ SharedDetect(w)
       \/ SharedUpdate(w)
       \/ SharedStats(w)

SpecShared == InitShared /\ [][NextShared]_vars

\* The records instance w wrote.
RowsOf(w) == {k \in DOMAIN probe.rows : probe.rows[k].written_by = w}

\* C31: two pipeline instances running on the same store share no
\* cooldown or counter state.  Whether instance w admits or suppresses a
\* label depends on w's own admissions only (an admission of the same
\* label by the other instance never suppresses it); w's counters count
\* w's records; each record carries the camera_id of the instance that
\* wrote it; and statistics filtered by w's camera count exactly w's
\* records, under every interleaving of the two instances.
InstancesIndependent ==
  probe.fn = "shared" =>
    /\ \A k \in DOMAIN probe.rows :
         probe.rows[k].camera_id = CameraOf(probe.rows[k].written_by)
    /\ \A w \in Writers :
         LET me == probe.inst[w]
             g == me.gate
             near == {k \in RowsOf(w) :
                        /\ k # g.det_id
                        /\ probe.rows[k].label = g.label
                        /\ g.at - probe.rows[k].created
                             < InstanceArgs(w).cooldown}
         IN  /\ me.stats.detections = Cardinality(RowsOf(w))
             /\ me.stats.llm_calls =
                  Cardinality({k \in RowsOf(w) : probe.rows[k].sent_to_llm})
                  + (IF me.pc = "verify" THEN 1 ELSE 0)
             /\ g.outcome # "none" => (g.outcome = "suppressed" <=> near # {})
    /\ probe.snapshot.by \in Writers =>
         LET then == {k \in RowsOf(probe.snapshot.by) : k <= probe.snapshot.len}
             res == probe.snapshot.result
         IN  /\ res.total = Cardinality(then)
             /\ DOMAIN res.by_class = {probe.rows[k].label : k \in then}
             /\ \A l \in DOMAIN res.by_class :
                  res.by_class[l] =
                    Cardinality({k \in then : probe.rows[k].label = l})

SameLabelOnBothCamerasWitness ==
  /\ probe.fn = "shared"
  /\ Len(probe.rows) = 3
  /\ probe.rows[1].label = "person"
  /\ probe.rows[2].label = "person"
  /\ probe.rows[1].written_by = 1
  /\ probe.rows[2].written_by = 2
  /\ probe.rows[2].created - probe.rows[1].created < BaseArgs.cooldown
  /\ probe.inst[1].gate.outcome = "suppressed"
  /\ probe.inst[2].pc = "verify"
  /\ probe.snapshot.by = 1
  /\ probe.snapshot.len = 3
  /\ probe.snapshot.result.total = 1

\* ------------------------------------------------- end-to-end scenario
\* One run with a sampled frame at every instant.  Every frame shows a
\* first object (region probe.first.obj, model output probe.first.out, at
\* the threshold); one frame also shows a second object for which the
\* model finds no box (unknown, 0.0), with probe.http what its verifier
\* request does.  probe.stage is where the current frame is: 0 not read
\* at this instant, 1 read, 2 first object processed, 3 frame done.
ScenarioConfigs ==
  {[BaseArgs EXCEPT !.cooldown = 1],
   [BaseArgs EXCEPT !.cooldown = 1, !.api_key = ""]}

InitScenario ==
  /\ args = BaseArgs
  /\ Constructed
  /\ \E a \in ScenarioConfigs, obj1 \in Regions, obj2 \in Regions,
        out \in {o \in ModelOutputs : o.kind = "box"},
        http \in HttpOutcomes :
       probe = [fn |-> "scenario", a |-> a, clock |-> 0, stage |-> 0,
                first |-> [obj |-> obj1, out |-> out,
                           http |-> http, db |-> "none"],
                second |-> [obj |-> obj2,
                            out |-> [kind |-> "nobox", name |-> "", conf |-> 0],
                            http |-> http, db |-> "none"],
                second_seen |-> FALSE, run |-> NewRun]

ScenarioOpen ==
  /\ probe.fn = "scenario"
  /\ probe.run.pc = "start"
  /\ probe' = [probe EXCEPT !.run = run_open(probe.a, @, TRUE)]
  /\ ProbeOnly

\* cap.read() returns the frame of this instant.
ScenarioRead ==
  /\ probe.fn = "scenario"
  /\ probe.run.pc = "loop"
  /\ probe.stage = 0
  /\ probe' = [probe EXCEPT !.run = run_read(probe.a, @), !.stage = 1]
  /\ ProbeOnly

\* process_frame, the first object.
ScenarioFirst ==
  /\ probe.fn = "scenario"
  /\ probe.run.pc = "frame"
  /\ probe.stage = 1
  /\ probe' = [probe EXCEPT
       !.run = process_obj(probe.a, @, probe.first, probe.clock),
       !.stage = 2]
  /\ ProbeOnly

\* process_frame, the second object, in the one frame that shows it.
ScenarioSecond ==
  /\ probe.fn = "scenario"
  /\ probe.run.pc = "frame"
  /\ probe.stage = 2
  /\ ~probe.second_seen
  /\ probe.clock < 3 * probe.a.cooldown
  /\ probe' = [probe EXCEPT
       !.run = process_obj(probe.a, @, probe.second, probe.clock),
       !.second_seen = TRUE]
  /\ ProbeOnly

ScenarioFrameDone ==
  /\ probe.fn = "scenario"
  /\ probe.run.pc = "frame"
  /\ probe.stage = 2
  /\ probe' = [probe EXCEPT
       !.run = maybe_emit_stats(probe.a, @, probe.clock),
       !.stage = 3]
  /\ ProbeOnly

\* An exception left process_frame: the finally block of run().
ScenarioFinally ==
  /\ probe.fn = "scenario"
  /\ probe.run.pc = "finally"
  /\ probe' = [probe EXCEPT !.run = run_finally(probe.a, @)]
  /\ ProbeOnly

\* The next instant, once this one's frame is done or run() has ended.
ScenarioTick ==
  /\ probe.fn = "scenario"
  /\ probe.stage = 3 \/ probe.run.pc = "crashed"
  /\ probe.clock < MaxTime
  /\ probe' = [probe EXCEPT !.clock = @ + 1, !.stage = 0]
  /\ ProbeOnly

NextScenario ==
  \/ ScenarioOpen
  \/ ScenarioRead
  \/ ScenarioFirst
  \/ ScenarioSecond
  \/ ScenarioFrameDone
  \/ ScenarioFinally
  \/ ScenarioTick

SpecScenario == InitScenario /\ [][NextScenario]_vars

\* The records of label l written in the first 3 cooldown windows.
ScenarioRows(l) ==
  {k \in DOMAIN probe.run.conn :
     /\ probe.run.conn[k].label = l
     /\ probe.run.conn[k].timestamp < 3 * probe.a.cooldown}

\* C32: end to end.  An object of one label seen in every sampled frame
\* for 3 times the cooldown window, with confidence at or above the
\* threshold and night mode off, yields exactly 3 Detection records of
\* that label, none with sent_to_llm true and no verifier call for them;
\* a second object of another label with confidence below the threshold
\* yields one Detection and exactly one verifier call, and when that call
\* fails the record holds the local label as llm_label, an empty
\* description and sent_to_llm true.
EndToEnd ==
  (/\ probe.fn = "scenario"
   /\ probe.clock = 3 * probe.a.cooldown
   /\ probe.second_seen) =>
    LET l1 == YOLO_TO_10_CLASSES(probe.first.out.name)
        conn1 == probe.run.conn
    IN  /\ Cardinality(ScenarioRows(l1)) = 3
        /\ \A k \in ScenarioRows(l1) : ~conn1[k].sent_to_llm
        /\ Cardinality(ScenarioRows("unknown")) = 1
        /\ probe.run.stats.llm_calls = 1
        /\ (probe.a.api_key = "" \/ probe.second.http.kind = "raise") =>
             \A k \in ScenarioRows("unknown") :
               /\ conn1[k].llm_label = "unknown"
               /\ conn1[k].llm_description = ""
               /\ conn1[k].sent_to_llm

====
